---- MODULE Spec2Model ----
(***************************************************************************)
(* Model of the email clustering pipeline of peteryej/email_cluster:       *)
(* EmailPreprocessor (backend/clustering/preprocessor.py), EmailVectorizer *)
(* (backend/clustering/vectorizer.py), EmailClusterer                      *)
(* (backend/clustering/clusterer.py) and process_and_cluster_emails        *)
(* (backend/api/routes.py).                                                *)
(*                                                                         *)
(* Text is modelled by TLA+ strings, one character per position, so that   *)
(* cleaning, keyword matching and the f-string descriptions are computed   *)
(* as the code computes them.  The numeric libraries (TF-IDF, scaler,      *)
(* k-means, silhouette) are not part of the repository: their results are  *)
(* chosen nondeterministically among the outcomes their contracts allow.   *)
(***************************************************************************)
EXTENDS Integers, Sequences, FiniteSets, TLC

VARIABLES
    pc,                \* position of the current run / which operation ran last
    emails,            \* raw batch handed to process_and_cluster_emails
    processed_emails,  \* list of feature dicts (preprocess_emails result / argument)
    feature_vectors,   \* feature matrix: sequence of rows, <<>> = np.array([])
    email_ids,         \* ids parallel to the rows
    vectorizer,        \* EmailVectorizer instance fields
    clusterer,         \* EmailClusterer instance fields
    clusters,          \* list returned by cluster_emails / the pipeline
    outcome,           \* what the last call did (k-means run, exceptions raised)
    n_arg,             \* the n_clusters argument EmailClusterer was constructed with
    db,                \* DatabaseManager: stored emails, cluster rows, assignments
    email,             \* raw email handed to extract_features
    features,          \* feature dict returned by extract_features
    label,             \* <<label, description>> returned for one cluster
    returned,          \* what the finished runs of the pipeline returned, run after run
    library,           \* what the seeded library calls compute for the fetched batch
    result,            \* what the last call of a helper or of a route returned
    provider,          \* the mail provider: the calls made to it, the archived messages
    authenticated      \* what oauth_handler.is_authenticated() reports

vars == <<pc, emails, processed_emails, feature_vectors, email_ids, vectorizer,
          clusterer, clusters, outcome, n_arg, db, email, features, label,
          returned, library, result, provider, authenticated>>

-----------------------------------------------------------------------------
(* Characters and strings *)

UpperChars == "ABCDEFGHIJKLMNOPQRSTUVWXYZ"
LowerChars == "abcdefghijklmnopqrstuvwxyz"
DigitChars == "0123456789"

CharsOf(s) == { SubSeq(s, i, i) : i \in 1..Len(s) }

UpperSet == CharsOf(UpperChars)
LowerSet == CharsOf(LowerChars)
Letters == UpperSet \cup LowerSet
Digits == CharsOf(DigitChars)
WordChars == Letters \cup Digits \cup {"_"}
SpaceChars == {" ", "\n", "\t"}

\* s[i] as a one-character string, "" outside the string
At(s, i) == IF i >= 1 /\ i <= Len(s) THEN SubSeq(s, i, i) ELSE ""

\* str.lower() on one character
LowerChar(c) ==
    IF c \in UpperSet
    THEN LET i == CHOOSE k \in 1..Len(UpperChars) : SubSeq(UpperChars, k, k) = c
         IN SubSeq(LowerChars, i, i)
    ELSE c

\* str.upper() on one character
UpperChar(c) ==
    IF c \in LowerSet
    THEN LET i == CHOOSE k \in 1..Len(LowerChars) : SubSeq(LowerChars, k, k) = c
         IN SubSeq(UpperChars, i, i)
    ELSE c

\* ''.join(xs) for a list of strings, by halves
RECURSIVE Concat(_)
Concat(xs) ==
    IF xs = <<>> THEN ""
    ELSE IF Len(xs) = 1 THEN xs[1]
    ELSE Concat(SubSeq(xs, 1, Len(xs) \div 2)) \o Concat(SubSeq(xs, Len(xs) \div 2 + 1, Len(xs)))

\* a function on 1..n as an explicit list: every element is computed once
List(f) == f \o <<>>

\* str.lower()
Lower(s) == Concat(List([ i \in 1..Len(s) |-> LowerChar(At(s, i)) ]))

Min(a, b) == IF a < b THEN a ELSE b
Max(a, b) == IF a > b THEN a ELSE b

\* the least / greatest element of a set of positions, 0 for the empty set
MinOrZero(S) == IF S = {} THEN 0 ELSE CHOOSE x \in S : \A y \in S : x <= y
MaxOrZero(S) == IF S = {} THEN 0 ELSE CHOOSE x \in S : \A y \in S : y <= x

SubSeqOrEmpty(s, lo, hi) == IF lo > hi THEN "" ELSE SubSeq(s, lo, hi)

\* s[a-1:b] with the indices clipped to the string, as Python slices are
Slice(s, a, b) == SubSeqOrEmpty(s, Max(a, 1), Min(b, Len(s)))

\* Python's `t in s` for strings
Contains(s, t) ==
    \E i \in 1..(Len(s) - Len(t) + 1) : SubSeq(s, i, i + Len(t) - 1) = t

\* any(k in s for k in keywords)
ContainsAny(s, keywords) == \E k \in keywords : Contains(s, k)

\* str(n) for n >= 0
RECURSIVE Str(_)
Str(n) ==
    IF n < 10 THEN SubSeq(DigitChars, n + 1, n + 1)
    ELSE Str(n \div 10) \o SubSeq(DigitChars, (n % 10) + 1, (n % 10) + 1)

\* last index of the maximal run of characters of class cls starting at i (i-1: none)
RunEnd(s, i, cls) ==
    IF i > Len(s) THEN i - 1
    ELSE MinOrZero({ j \in i..(Len(s) + 1) : At(s, j) \notin cls }) - 1

\* regex \b between positions i-1 and i
Boundary(s, i) == (At(s, i - 1) \in WordChars) # (At(s, i) \in WordChars)

-----------------------------------------------------------------------------
(* EmailPreprocessor.clean_text: the regular expressions, one matcher each. *)
(* A matcher gives the index of the last character of the match that       *)
(* starts at i, or 0 when the expression does not match at i.              *)

\* e when the run i..e is not empty, else 0
RunOrZero(i, e) == IF e >= i THEN e ELSE 0

\* <[^>]+>  (the tag stripper of _remove_html)
HtmlEnd(s, i) ==
    IF At(s, i) = "<" /\ At(s, i + 1) \notin {">", ""}
    THEN MinOrZero({ j \in (i + 2)..Len(s) : At(s, j) = ">" })
    ELSE 0

\* characters of the URL class: [a-zA-Z] [0-9] [$-_@.&+] [!*\(\),] (%xx is inside $-_)
UrlChars ==
    Letters \cup Digits \cup
    {"$", "%", "&", "'", "(", ")", "*", "+", ",", "-", ".", "/", ":", ";", "<", "=",
     ">", "?", "@", "[", "\\", "]", "^", "_", "!"}

\* ://(?:...)+ at p, the position after http or https (0: neither)
UrlAfterScheme(s, p) ==
    IF p # 0 /\ Slice(s, p, p + 2) = "://"
    THEN RunOrZero(p + 3, RunEnd(s, p + 3, UrlChars))
    ELSE 0

\* http[s]?://(?:...)+
UrlEnd(s, i) ==
    UrlAfterScheme(s, IF Slice(s, i, i + 4) = "https" THEN i + 5
                      ELSE IF Slice(s, i, i + 3) = "http" THEN i + 4 ELSE 0)

LocalChars == Letters \cup Digits \cup {".", "_", "%", "+", "-"}
DomainChars == Letters \cup Digits \cup {".", "-"}
TldChars == Letters \cup {"|"}

\* [A-Za-z0-9.-]+\.[A-Z|a-z]{2,}\b for the domain run d0..e: the match ends at
\* the last position x that is two or more top-level characters after a dot p
\* of the run and stands before a word boundary (greedy: the last such dot,
\* and the longest top-level part)
EmailDomainEnd(s, d0, e) ==
    MaxOrZero({ x \in (d0 + 3)..Len(s) :
                  /\ Boundary(s, x + 1)
                  /\ \E p \in (d0 + 1)..e :
                        At(s, p) = "." /\ x >= p + 2 /\ x <= RunEnd(s, p + 1, TldChars) })

\* @ after the local run i..j, then the domain
EmailAfterLocal(s, i, j) ==
    IF j >= i /\ At(s, j + 1) = "@"
    THEN EmailDomainEnd(s, j + 2, RunEnd(s, j + 2, DomainChars))
    ELSE 0

\* \b[A-Za-z0-9._%+-]+@[A-Za-z0-9.-]+\.[A-Z|a-z]{2,}\b
EmailEnd(s, i) ==
    IF Boundary(s, i) THEN EmailAfterLocal(s, i, RunEnd(s, i, LocalChars)) ELSE 0

AllDigits(s, a, b) == \A k \in a..b : At(s, k) \in Digits

\* [-.]? at p: the position after it
SkipSeparator(s, p) == IF At(s, p) \in {"-", "."} THEN p + 1 ELSE p

\* \d{4}\b at p
PhoneLast(s, p) ==
    IF AllDigits(s, p, p + 3) /\ Boundary(s, p + 4) THEN p + 3 ELSE 0

\* \d{3}[-.]?\d{4}\b at p
PhoneMiddle(s, p) ==
    IF AllDigits(s, p, p + 2) THEN PhoneLast(s, SkipSeparator(s, p + 3)) ELSE 0

\* \b\d{3}[-.]?\d{3}[-.]?\d{4}\b
PhoneEnd(s, i) ==
    IF Boundary(s, i) /\ AllDigits(s, i, i + 2)
    THEN PhoneMiddle(s, SkipSeparator(s, i + 3))
    ELSE 0

\* \s+
SpacesEnd(s, i) == RunOrZero(i, RunEnd(s, i, SpaceChars))

\* [^\w\s\-\.]
PunctEnd(s, i) ==
    IF At(s, i) \notin (WordChars \cup SpaceChars \cup {"-", "."}) THEN i ELSE 0

\* the digit run i..e of \b\d+\b
NumberRun(s, i, e) == IF e >= i /\ Boundary(s, e + 1) THEN e ELSE 0

\* \b\d+\b
NumberEnd(s, i) == IF Boundary(s, i) THEN NumberRun(s, i, RunEnd(s, i, Digits)) ELSE 0

MatchEnd(kind, s, i) ==
    CASE kind = "html" -> HtmlEnd(s, i)
      [] kind = "url" -> UrlEnd(s, i)
      [] kind = "email" -> EmailEnd(s, i)
      [] kind = "phone" -> PhoneEnd(s, i)
      [] kind = "spaces" -> SpacesEnd(s, i)
      [] kind = "punct" -> PunctEnd(s, i)
      [] kind = "number" -> NumberEnd(s, i)

\* the first position from i on where the expression matches, 0 if none
NextMatch(kind, s, i) == MinOrZero({ j \in i..Len(s) : MatchEnd(kind, s, j) >= j })

\* re.sub(pattern, repl, s) from position i on: leftmost non-overlapping
\* matches; m is the start of the next match (0: no match is left)
RECURSIVE Sub(_, _, _, _)
SubStep(kind, repl, s, i, m) ==
    IF m = 0 THEN Slice(s, i, Len(s))
    ELSE Slice(s, i, m - 1) \o repl \o Sub(kind, repl, s, MatchEnd(kind, s, m) + 1)

Sub(kind, repl, s, i) ==
    IF i > Len(s) THEN "" ELSE SubStep(kind, repl, s, i, NextMatch(kind, s, i))

\* re.sub for a list of <<pattern, repl>> pairs, applied one after the other
RECURSIVE SubAll(_, _)
SubAll(steps, s) ==
    IF steps = <<>> THEN s
    ELSE SubAll(Tail(steps), Sub(Head(steps)[1], Head(steps)[2], s, 1))

\* str.strip()
Strip(s) ==
    Slice(s, MinOrZero({ j \in 1..Len(s) : At(s, j) \notin SpaceChars }),
          MaxOrZero({ j \in 1..Len(s) : At(s, j) \notin SpaceChars }))

\* the number of words of a string that has single spaces and no outer space
CountWords(t) ==
    IF t = "" THEN 0 ELSE 1 + Cardinality({ i \in 1..Len(t) : At(t, i) = " " })

\* EmailPreprocessor.clean_text, lines 69-82: tags (_remove_html), URLs, email
\* addresses, phone numbers, whitespace runs
before_lower ==
    << <<"html", "">>, <<"url", "">>, <<"email", "">>, <<"phone", "">>, <<"spaces", " ">> >>

\* lines 87-94: punctuation, numbers, ' '.join(text.split())
after_lower == << <<"punct", " ">>, <<"number", "">>, <<"spaces", " ">> >>

\* EmailPreprocessor.clean_text
clean_text(text) ==
    IF text = "" THEN ""
    ELSE Strip(SubAll(after_lower, Lower(SubAll(before_lower, text))))

\* len(text.split()) for a cleaned text
WordCount(cleaned) == CountWords(cleaned)

-----------------------------------------------------------------------------
(* EmailPreprocessor *)

\* first index >= i where the tag expression <[^>]+> matches, 0 if none
FirstTag(s, i) == MinOrZero({ j \in i..Len(s) : HtmlEnd(s, j) >= j })

\* first index >= i of an '@' followed by a character other than '@', 0 if none
FirstAt(s, i) ==
    MinOrZero({ j \in i..(Len(s) - 1) : At(s, j) = "@" /\ At(s, j + 1) # "@" })

MailPrefixes == <<"mail.", "smtp.", "pop.", "imap.">>

\* the domain without its prefix MailPrefixes[k] (k = 0: no prefix matched)
WithoutPrefix(domain, k) ==
    IF k = 0 THEN domain ELSE Slice(domain, Len(MailPrefixes[k]) + 1, Len(domain))

\* re.sub(r'^(mail|smtp|pop|imap)\.', '', domain)
StripMailPrefix(domain) ==
    WithoutPrefix(domain, MinOrZero({ k \in 1..Len(MailPrefixes) :
                                        Slice(domain, 1, Len(MailPrefixes[k])) = MailPrefixes[k] }))

\* re.search(r'<([^>]+)>', sender): group 1 of the match at t, else the sender
AddressOf(sender, t) ==
    IF t # 0 THEN Slice(sender, t + 1, HtmlEnd(sender, t) - 1) ELSE sender

\* re.search(r'@([^@]+)', email): group 1 of the match at a, lower-cased and
\* without the mail prefix; 'unknown' when there is no match
DomainAfter(email_addr, a) ==
    IF a # 0
    THEN StripMailPrefix(Lower(Slice(email_addr, a + 1,
                                     RunEnd(email_addr, a + 1, CharsOf(email_addr) \ {"@"}))))
    ELSE "unknown"

DomainOf(email_addr) == DomainAfter(email_addr, FirstAt(email_addr, 1))

\* EmailPreprocessor._extract_domain
extract_domain(sender) == DomainOf(AddressOf(sender, FirstTag(sender, 1)))

newsletter_indicators ==
    {"newsletter", "digest", "weekly", "monthly", "daily", "unsubscribe",
     "subscription", "mailing list", "noreply", "no-reply", "donotreply"}

notification_indicators ==
    {"notification", "alert", "reminder", "confirmation", "receipt", "invoice",
     "statement", "report", "update", "status", "activity", "security"}

promo_indicators ==
    {"sale", "discount", "offer", "deal", "promotion", "coupon", "save", "free",
     "limited time", "special", "exclusive", "buy now", "shop"}

\* EmailPreprocessor._is_newsletter
is_newsletter(sender, subject, body) ==
    ContainsAny(Lower(sender \o " " \o subject \o " " \o body), newsletter_indicators)

\* EmailPreprocessor._is_notification
is_notification(subject, body) ==
    ContainsAny(Lower(subject \o " " \o body), notification_indicators)

\* EmailPreprocessor._is_promotional
is_promotional(subject, body) ==
    ContainsAny(Lower(subject \o " " \o body), promo_indicators)

\* the feature dict of extract_features for the cleaned subject and body
\* (the token list of _tokenize_and_filter is the work of the nltk library and
\* is not carried: nothing below reads it)
feature_dict(e, subject, body) ==
    [ gmail_id |-> e.gmail_id,
      subject |-> subject,
      body |-> body,
      sender |-> e.sender,
      sender_domain |-> extract_domain(e.sender),
      subject_length |-> WordCount(subject),
      body_length |-> WordCount(body),
      has_attachments |-> Contains(Lower(body), "attachment"),
      is_newsletter |-> is_newsletter(e.sender, subject, body),
      is_notification |-> is_notification(subject, body),
      is_promotional |-> is_promotional(subject, body) ]

\* EmailPreprocessor.extract_features, for an email whose fields are strings
extract_features(e) == feature_dict(e, clean_text(e.subject), clean_text(e.body))

\* extract_features raises when a text field holds a value re.sub cannot take
\* (a truthy non-string): clean_text passes `if not text` and fails in re.sub
Raises(e) == e.malformed

\* preprocess_emails without its try/except: the first email whose extraction
\* raises ends the loop
RECURSIVE preprocess_until_error(_)
preprocess_until_error(batch) ==
    IF batch = <<>> \/ Raises(Head(batch)) THEN <<>>
    ELSE <<extract_features(Head(batch))>> \o preprocess_until_error(Tail(batch))

\* EmailPreprocessor.preprocess_emails: the emails whose extraction raises are
\* skipped, the others are appended in input order
RECURSIVE preprocess_emails(_)
preprocess_emails(batch) ==
    IF batch = <<>> THEN <<>>
    ELSE IF Raises(Head(batch)) THEN preprocess_emails(Tail(batch))
    ELSE <<extract_features(Head(batch))>> \o preprocess_emails(Tail(batch))

-----------------------------------------------------------------------------
(* Sequences *)

\* position of index i when ks is sorted in descending order by a stable sort
\* (list.sort(key=..., reverse=True), Counter.most_common)
RankDesc(ks, i) ==
    Cardinality({ j \in 1..Len(ks) : ks[j] > ks[i] \/ (ks[j] = ks[i] /\ j < i) }) + 1

\* the indices in descending order of ks, equal keys in reversed order (the
\* result of sorting in ascending order and reversing the list)
SortAscReversed(ks) ==
    List([ r \in 1..Len(ks) |->
             CHOOSE i \in 1..Len(ks) :
                 Cardinality({ j \in 1..Len(ks) :
                                 ks[j] > ks[i] \/ (ks[j] = ks[i] /\ j > i) }) + 1 = r ])

\* the indices of ks in descending order of ks, equal keys in their original order
SortDesc(ks) ==
    List([ r \in 1..Len(ks) |-> CHOOSE i \in 1..Len(ks) : RankDesc(ks, i) = r ])

\* xs[:k]
Take(xs, k) == IF Len(xs) <= k THEN xs ELSE SubSeq(xs, 1, k)

\* sep.join(xs) for a list of strings
RECURSIVE Join(_, _)
Join(xs, sep) ==
    IF xs = <<>> THEN ""
    ELSE IF Len(xs) = 1 THEN xs[1]
    ELSE xs[1] \o sep \o Join(Tail(xs), sep)

\* d with x appended unless d holds it already
AppendNew(d, x) == IF \E i \in 1..Len(d) : d[i] = x THEN d ELSE Append(d, x)

\* the distinct elements of xs in the order of their first occurrence
RECURSIVE Distinct(_)
Distinct(xs) ==
    IF xs = <<>> THEN <<>>
    ELSE AppendNew(Distinct(SubSeq(xs, 1, Len(xs) - 1)), xs[Len(xs)])

Occurrences(xs, x) == Cardinality({ i \in 1..Len(xs) : xs[i] = x })

\* the <<element, count>> pairs of d and counts in the given order
Pairs(d, counts, order) ==
    List([ r \in 1..Len(order) |-> <<d[order[r]], counts[order[r]]>> ])

\* the pairs of the distinct elements d with their counts, highest count first
Ranked(d, counts) == Pairs(d, counts, SortDesc(counts))

\* Counter(xs): the pairs for the distinct elements d of xs
Counted(xs, d) == Ranked(d, List([ i \in 1..Len(d) |-> Occurrences(xs, d[i]) ]))

\* Counter(xs).most_common(k): <<element, count>> pairs, highest count first,
\* equal counts in the order of first occurrence
most_common(xs, k) == Take(Counted(xs, Distinct(xs)), k)

\* str.title(): a letter is upper-cased unless the character before it is a letter
Title(s) ==
    Concat(List([ i \in 1..Len(s) |->
                    IF At(s, i - 1) \in Letters THEN LowerChar(At(s, i))
                    ELSE UpperChar(At(s, i)) ]))

\* the first position from i on where old occurs in s, 0 if none
NextOccurrence(s, old, i) ==
    MinOrZero({ j \in i..(Len(s) - Len(old) + 1) : SubSeq(s, j, j + Len(old) - 1) = old })

\* s[i-1:].replace(old, ''); m is the next occurrence of old (0: none is left)
RECURSIVE RemoveFrom(_, _, _)
RemoveStep(s, old, i, m) ==
    IF m = 0 THEN Slice(s, i, Len(s))
    ELSE Slice(s, i, m - 1) \o RemoveFrom(s, old, m + Len(old))

RemoveFrom(s, old, i) ==
    IF i > Len(s) THEN "" ELSE RemoveStep(s, old, i, NextOccurrence(s, old, i))

\* s.replace(old, ''): every non-overlapping occurrence, left to right
Remove(s, old) == RemoveFrom(s, old, 1)

-----------------------------------------------------------------------------
(* EmailVectorizer: the part the clusterer reads.  A feature matrix is a     *)
(* sequence of rows, a row a sequence of weights in units of 0.01; <<>> is   *)
(* np.array([]).                                                             *)

\* ndarray.size
Size(matrix) == IF matrix = <<>> THEN 0 ELSE Len(matrix) * Len(matrix[1])

additional_names ==
    <<"subject_length", "body_length", "token_count", "has_attachments",
      "is_newsletter", "is_notification", "is_promotional", "sender_domain_category">>

\* EmailVectorizer.get_feature_names
get_feature_names(vec) == vec.feature_names \o additional_names

\* position of index i when values is sorted in ascending order by a stable sort
RankAsc(values, i) ==
    Cardinality({ j \in 1..Len(values) :
                    values[j] < values[i] \/ (values[j] = values[i] /\ j < i) }) + 1

\* np.argsort(values)
argsort(values) ==
    List([ r \in 1..Len(values) |-> CHOOSE i \in 1..Len(values) : RankAsc(values, i) = r ])

\* asc[-n:][::-1]
LastReversed(asc, n) == List([ r \in 1..n |-> asc[Len(asc) - r + 1] ])

\* np.argsort(values)[-top_n:][::-1]: the indices of the top_n largest values,
\* largest first
TopIndices(values, top_n) == LastReversed(argsort(values), Min(top_n, Len(values)))

RECURSIVE SumColumn(_, _)
SumColumn(rows, c) ==
    IF rows = <<>> THEN 0 ELSE Head(rows)[c] + SumColumn(Tail(rows), c)

\* the names of the columns top whose index is a named feature and whose mean
\* weight is above 0.01 (sum > number of rows, in units of 0.01)
TopNames(names, sums, top, rows) ==
    SelectSeq(List([ r \in 1..Len(top) |->
                       IF top[r] <= Len(names) /\ sums[top[r]] > rows
                       THEN names[top[r]] ELSE "" ]),
              LAMBDA name : name # "")

TopOf(vec, sums, top_n, rows) ==
    TopNames(get_feature_names(vec), sums, TopIndices(sums, top_n), rows)

\* s.endswith(t)
EndsWith(s, t) == Len(s) >= Len(t) /\ SubSeq(s, Len(s) - Len(t) + 1, Len(s)) = t

\* the keyword lists of _encode_sender_domain, in the order the code checks them
social_domains == {"facebook", "twitter", "linkedin", "instagram", "whatsapp", "telegram"}
shopping_domains == {"amazon", "ebay", "shopify", "etsy", "alibaba", "walmart"}
finance_domains == {"bank", "paypal", "stripe", "visa", "mastercard", "finance"}
news_domains == {"news", "media", "times", "post", "reuters", "cnn", "bbc"}
tech_domains == {"google", "microsoft", "apple", "github", "stackoverflow", "tech"}

\* the chain with the ending .edu tested before the keyword lists
encode_edu_first(domain) ==
    IF domain = "" \/ domain = "unknown" THEN 0
    ELSE IF EndsWith(domain, ".edu") THEN 7
    ELSE IF ContainsAny(domain, social_domains) THEN 1
    ELSE IF ContainsAny(domain, shopping_domains) THEN 2
    ELSE IF ContainsAny(domain, finance_domains) THEN 3
    ELSE IF ContainsAny(domain, news_domains) THEN 4
    ELSE IF ContainsAny(domain, tech_domains) THEN 5
    ELSE IF EndsWith(domain, ".gov") \/ EndsWith(domain, ".org") THEN 6
    ELSE 8

\* EmailVectorizer._encode_sender_domain; the codes 0.0 .. 8.0 as integers
encode_sender_domain(domain) ==
    IF domain = "" \/ domain = "unknown" THEN 0
    ELSE IF ContainsAny(domain, social_domains) THEN 1
    ELSE IF ContainsAny(domain, shopping_domains) THEN 2
    ELSE IF ContainsAny(domain, finance_domains) THEN 3
    ELSE IF ContainsAny(domain, news_domains) THEN 4
    ELSE IF ContainsAny(domain, tech_domains) THEN 5
    ELSE IF EndsWith(domain, ".gov") \/ EndsWith(domain, ".org") THEN 6
    ELSE IF EndsWith(domain, ".edu") THEN 7
    ELSE 8

\* EmailVectorizer.get_top_features_for_cluster: the names of the top_n columns
\* by mean weight whose mean is above 0.01
get_top_features_for_cluster(vec, cluster_vectors, top_n) ==
    IF ~vec.is_fitted \/ Size(cluster_vectors) = 0 THEN <<>>
    ELSE TopOf(vec,
               List([ c \in 1..Len(cluster_vectors[1]) |-> SumColumn(cluster_vectors, c) ]),
               top_n, Len(cluster_vectors))

-----------------------------------------------------------------------------
(* EmailClusterer: labels and descriptions *)

\* the text alone
WithoutCount(text, total_emails) == text

\* f"{text} ({total_emails} emails)"
WithCount(text, total_emails) == text \o " (" \o Str(total_emails) \o " emails)"

\* the keyword groups of _domain_to_label, in the order the code checks them
domain_groups ==
    << <<{"facebook", "twitter", "linkedin", "instagram"}, "Social Media">>,
       <<{"amazon", "ebay", "shopify", "etsy", "shop"}, "Shopping & E-commerce">>,
       <<{"bank", "paypal", "stripe", "finance", "credit"}, "Financial Services">>,
       <<{"news", "times", "post", "reuters", "cnn", "bbc"}, "News & Media">>,
       <<{"github", "stackoverflow", "google", "microsoft"}, "Technology & Development">>,
       <<{"slack", "teams", "zoom", "office", "business"}, "Work & Business">> >>

\* the label of the first group with a keyword in the domain (g = 0: no group),
\* else the domain without .com/.org/.net in title case
DomainLabel(domain, g) ==
    IF g # 0 THEN domain_groups[g][2]
    ELSE Title(Remove(Remove(Remove(domain, ".com"), ".org"), ".net")) \o " Emails"

GroupLabel(domain) ==
    DomainLabel(domain, MinOrZero({ g \in 1..Len(domain_groups) :
                                      ContainsAny(domain, domain_groups[g][1]) }))

\* EmailClusterer._domain_to_label
domain_to_label(d) == GroupLabel(Lower(d))

\* feature_categories of _features_to_label, in insertion order
feature_categories ==
    << <<"work", "Work & Business">>, <<"business", "Work & Business">>,
       <<"meeting", "Work & Business">>, <<"project", "Work & Business">>,
       <<"team", "Work & Business">>, <<"newsletter", "Newsletters">>,
       <<"news", "News & Updates">>, <<"update", "News & Updates">>,
       <<"notification", "Notifications">>, <<"alert", "Notifications">>,
       <<"sale", "Shopping & Deals">>, <<"deal", "Shopping & Deals">>,
       <<"offer", "Shopping & Deals">>, <<"discount", "Shopping & Deals">>,
       <<"order", "Shopping & Orders">>, <<"receipt", "Receipts & Invoices">>,
       <<"invoice", "Receipts & Invoices">>, <<"payment", "Financial">>,
       <<"account", "Account Management">>, <<"security", "Security & Privacy">>,
       <<"social", "Social Media">>, <<"event", "Events & Calendar">> >>

\* the category of the first keyword that is in the feature, 0 if none
CategoryOf(feature) ==
    MinOrZero({ k \in 1..Len(feature_categories) :
                  Contains(feature, feature_categories[k][1]) })

\* the category of the first feature that has one, 0 if none
FirstCategory(cats) ==
    cats[MinOrZero({ f \in 1..Len(cats) : cats[f] # 0 })]

FeatureLabel(feats, cats) ==
    IF \E f \in 1..Len(cats) : cats[f] # 0
    THEN feature_categories[FirstCategory(cats)][2]
    ELSE IF feats # <<>> THEN Title(feats[1]) \o " Related"
    ELSE "Mixed Content"

\* EmailClusterer._features_to_label: the first feature, and for it the first
\* keyword, with `keyword in feature.lower()`
features_to_label(feats) ==
    FeatureLabel(feats, List([ f \in 1..Len(feats) |-> CategoryOf(Lower(feats[f])) ]))

\* word_categories of _words_to_label
word_categories ==
    << <<"order", "Orders & Shopping">>, <<"receipt", "Receipts">>,
       <<"invoice", "Invoices">>, <<"payment", "Payments">>,
       <<"account", "Account Updates">>, <<"security", "Security Alerts">>,
       <<"newsletter", "Newsletters">>, <<"update", "Updates">>,
       <<"notification", "Notifications">>, <<"meeting", "Meetings">>,
       <<"event", "Events">>, <<"reminder", "Reminders">>,
       <<"confirmation", "Confirmations">> >>

\* the category whose key is the word, 0 if none (dict keys are distinct)
WordCategory(word) ==
    MinOrZero({ k \in 1..Len(word_categories) : word_categories[k][1] = word })

WordLabel(words, cats) ==
    IF \E w \in 1..Len(cats) : cats[w] # 0
    THEN word_categories[FirstCategory(cats)][2]
    ELSE Join(List([ i \in 1..Min(Len(words), 2) |-> Title(words[i]) ]), " & ")

\* EmailClusterer._words_to_label
words_to_label(words) ==
    WordLabel(words, List([ w \in 1..Len(words) |-> WordCategory(Lower(words[w])) ]))

\* a word of three or more letters between two word boundaries starts at j
WordStarts(s, j) ==
    /\ Boundary(s, j)
    /\ RunEnd(s, j, Letters) >= j + 2
    /\ Boundary(s, RunEnd(s, j, Letters) + 1)

\* the word that starts at m and the words after it (m = 0: no word is left)
RECURSIVE FindWords(_, _)
WordAt(s, m) ==
    IF m = 0 THEN <<>>
    ELSE <<SubSeq(s, m, RunEnd(s, m, Letters))>> \o FindWords(s, RunEnd(s, m, Letters) + 1)

\* re.findall(r'\b[a-zA-Z]{3,}\b', s), scanning from i
FindWords(s, i) == WordAt(s, MinOrZero({ j \in i..Len(s) : WordStarts(s, j) }))

\* subject_words of _generate_content_based_label
RECURSIVE SubjectWords(_)
SubjectWords(subjects) ==
    IF subjects = <<>> THEN <<>>
    ELSE FindWords(Lower(Head(subjects)), 1) \o SubjectWords(Tail(subjects))

generic_words == {"the", "and", "for", "you", "your"}

\* [email.get(field) for email in cluster_emails]
Column(cluster_emails, field) ==
    List([ i \in 1..Len(cluster_emails) |-> cluster_emails[i][field] ])

\* sum(1 for email in cluster_emails if email.get(field, False))
CountFlag(cluster_emails, field) ==
    Cardinality({ i \in 1..Len(cluster_emails) : cluster_emails[i][field] })

\* the final size fallback of _generate_content_based_label
size_label(total_emails) ==
    IF total_emails > 20
    THEN <<"Large Email Group", WithCount("Large group of related emails", total_emails)>>
    ELSE IF total_emails > 10
    THEN <<"Medium Email Group", WithCount("Medium group of related emails", total_emails)>>
    ELSE <<"Small Email Group", WithCount("Small group of related emails", total_emails)>>

\* [word for word, count in pairs]
Words(pairs) == List([ i \in 1..Len(pairs) |-> pairs[i][1] ])

\* [word for word, count in top3 if count > 1 and word not in generic_words]
common_words(top3) ==
    Words(SelectSeq(top3, LAMBDA pair : pair[2] > 1 /\ pair[1] \notin generic_words))

\* the subject-word rule for the words kept, then the size fallback
WordsRule(words, total_emails) ==
    IF words # <<>>
    THEN <<words_to_label(words),
           WithCount("Emails containing " \o Join(Take(words, 2), ", "), total_emails)>>
    ELSE size_label(total_emails)

\* lines 199-213 of _generate_content_based_label: the three most common subject
\* words are taken first and filtered afterwards
subject_label(subjects, total_emails) ==
    WordsRule(common_words(most_common(SubjectWords(subjects), 3)), total_emails)

\* the feature rule for the top features found, then the rules after it
FeaturesRule(top_features, subjects, total_emails) ==
    IF top_features # <<>>
    THEN <<features_to_label(top_features),
           WithCount("Emails about " \o Join(Take(top_features, 3), ", "), total_emails)>>
    ELSE subject_label(subjects, total_emails)

\* lines 190-197 of _generate_content_based_label
feature_label(subjects, vec, cluster_vectors, total_emails) ==
    FeaturesRule(get_top_features_for_cluster(vec, cluster_vectors, 5), subjects,
                 total_emails)

\* the domain rule with the threshold at half of the cluster
DomainRuleFromHalf(most_common_domains, subjects, vec, cluster_vectors, total_emails) ==
    IF /\ most_common_domains # <<>>
       /\ 2 * most_common_domains[1][2] >= total_emails
       /\ most_common_domains[1][1] # "unknown"
    THEN <<domain_to_label(most_common_domains[1][1]),
           WithCount("Emails from " \o most_common_domains[1][1] \o " and related services",
                     total_emails)>>
    ELSE feature_label(subjects, vec, cluster_vectors, total_emails)

\* the domain rule for the most common domains found, then the rules after it
DomainRule(most_common_domains, subjects, vec, cluster_vectors, total_emails) ==
    IF /\ most_common_domains # <<>>
       /\ 2 * most_common_domains[1][2] > total_emails
       /\ most_common_domains[1][1] # "unknown"
    THEN <<domain_to_label(most_common_domains[1][1]),
           WithCount("Emails from " \o most_common_domains[1][1] \o " and related services",
                     total_emails)>>
    ELSE feature_label(subjects, vec, cluster_vectors, total_emails)

\* EmailClusterer._generate_content_based_label: <<label, description>>
generate_content_based_label(cluster_emails, sender_domains, subjects, vec, cluster_vectors) ==
    DomainRule(most_common(sender_domains, 3), subjects, vec, cluster_vectors,
               Len(cluster_emails))

\* count / total_emails >= 0.6
AtLeast60(count, total_emails) == 10 * count >= 6 * total_emails

\* count / total_emails > 0.6
Over60(count, total_emails) == 10 * count > 6 * total_emails

\* EmailClusterer._generate_cluster_label_and_description: <<label, description>>
generate_cluster_label_and_description(cluster_emails, vec, cluster_vectors) ==
    IF Over60(CountFlag(cluster_emails, "is_newsletter"), Len(cluster_emails))
    THEN <<"Newsletters & Subscriptions",
           WithCount("Newsletter and subscription emails", Len(cluster_emails))>>
    ELSE IF Over60(CountFlag(cluster_emails, "is_notification"), Len(cluster_emails))
    THEN <<"Notifications & Alerts",
           WithCount("System notifications and alerts", Len(cluster_emails))>>
    ELSE IF Over60(CountFlag(cluster_emails, "is_promotional"), Len(cluster_emails))
    THEN <<"Promotions & Marketing",
           WithCount("Promotional and marketing emails", Len(cluster_emails))>>
    ELSE generate_content_based_label(cluster_emails,
                                      Column(cluster_emails, "sender_domain"),
                                      Column(cluster_emails, "subject"),
                                      vec, cluster_vectors)

-----------------------------------------------------------------------------
(* EmailClusterer *)

\* Config.DEFAULT_CLUSTERS
DEFAULT_CLUSTERS == 3

\* Python's None for an optional integer; <<k>> is the integer k
None == <<>>

\* the mail provider before any request: no call made, no message archived
NoProvider == [ calls |-> {}, archived |-> {} ]

\* KMeans without a seed: the generator of numpy's global state
global_random_state == None

\* random_state=42 of the KMeans call in cluster_emails
random_state == <<42>>

\* EmailClusterer.__init__: n_clusters or Config.DEFAULT_CLUSTERS
NewClusterer(n_clusters) ==
    [ n_clusters |-> IF n_clusters # None /\ n_clusters[1] # 0
                     THEN n_clusters ELSE <<DEFAULT_CLUSTERS>>,
      cluster_labels |-> None,
      silhouette_score |-> "None",
      is_fitted |-> FALSE ]

\* EmailClusterer._determine_optimal_clusters
determine_optimal_clusters(n_emails) ==
    IF n_emails < 10 THEN 2
    ELSE IF n_emails < 30 THEN 3
    ELSE IF n_emails < 100 THEN Min(4, n_emails \div 10)
    ELSE Min(5, n_emails \div 20)

\* EmailClusterer._create_single_cluster
create_single_cluster(processed, ids) ==
    << [ id |-> 1,
         label |-> "All Emails",
         description |-> "All your recent emails",
         email_count |-> Len(processed),
         emails |-> processed,
         email_ids |-> ids ] >>

\* [xs[i] for i in idx]
Values(xs, idx) == List([ r \in 1..Len(idx) |-> xs[idx[r]] ])

\* the members of every label from cluster_id on
MembersFrom(xs, labels, cluster_id) ==
    Values(xs, SelectSeq(List([ i \in 1..Len(xs) |-> i ]),
                         LAMBDA i : labels[i] >= cluster_id))

\* [xs[i] for i in range(len(xs)) if cluster_mask[i]], cluster_mask = labels == cluster_id
Members(xs, labels, cluster_id) ==
    Values(xs, SelectSeq(List([ i \in 1..Len(xs) |-> i ]),
                         LAMBDA i : labels[i] = cluster_id))

\* cluster_info of _generate_cluster_info; ld is <<label, description>>
cluster_info(cluster_id, cluster_emails, cluster_email_ids, ld) ==
    [ id |-> cluster_id + 1,
      label |-> ld[1],
      description |-> ld[2],
      email_count |-> Len(cluster_emails),
      emails |-> cluster_emails,
      email_ids |-> cluster_email_ids ]

\* one pass of the loop without the test for a label without emails
ClusterOfAnyLabel(cluster_id, cluster_emails, cluster_email_ids, vec, cluster_vectors) ==
    << cluster_info(cluster_id, cluster_emails, cluster_email_ids,
                    IF Len(cluster_emails) = 0 THEN <<"", "">>
                    ELSE generate_cluster_label_and_description(cluster_emails, vec,
                                                                cluster_vectors)) >>

\* one pass of the loop of _generate_cluster_info: a label without emails is skipped
ClusterOf(cluster_id, cluster_emails, cluster_email_ids, vec, cluster_vectors) ==
    IF Len(cluster_emails) = 0 THEN <<>>
    ELSE << cluster_info(cluster_id, cluster_emails, cluster_email_ids,
                         generate_cluster_label_and_description(cluster_emails, vec,
                                                                cluster_vectors)) >>

\* the loop of _generate_cluster_info over the labels cluster_id..n_clusters-1
RECURSIVE cluster_groups(_, _, _, _, _, _, _)
cluster_groups(cluster_id, n_clusters, processed, ids, vec, matrix, labels) ==
    IF cluster_id >= n_clusters THEN <<>>
    ELSE ClusterOf(cluster_id, Members(processed, labels, cluster_id),
                   Members(ids, labels, cluster_id), vec,
                   Members(matrix, labels, cluster_id))
         \o cluster_groups(cluster_id + 1, n_clusters, processed, ids, vec, matrix, labels)

\* the groups in the given order, their ids kept
InOrder(groups, order) == List([ r \in 1..Len(groups) |-> groups[order[r]] ])

\* the groups in the given order, the id of each set to its position
Renumbered(groups, order) ==
    List([ r \in 1..Len(groups) |-> [ groups[order[r]] EXCEPT !.id = r ] ])

\* clusters.sort(key=email_count, reverse=True) without the loop after it
sort_only(groups) ==
    InOrder(groups, SortDesc(List([ i \in 1..Len(groups) |-> groups[i].email_count ])))

\* clusters.sort(key=email_count, reverse=True), then id = position
sort_and_renumber(groups) ==
    Renumbered(groups, SortDesc(List([ i \in 1..Len(groups) |-> groups[i].email_count ])))

\* EmailClusterer._generate_cluster_info
generate_cluster_info(n_clusters, processed, ids, vec, matrix, labels) ==
    sort_and_renumber(cluster_groups(0, n_clusters, processed, ids, vec, matrix, labels))

\* the empty-input test restricted to the matrix
EmptyMatrix(matrix, ids) == Size(matrix) = 0

\* feature_vectors.size == 0 or len(email_ids) == 0
EmptyInput(matrix, ids) == Size(matrix) = 0 \/ Len(ids) = 0

\* the count as requested, without the clamp
RequestedCount(self, matrix) ==
    IF self.n_clusters = None THEN determine_optimal_clusters(Len(matrix))
    ELSE self.n_clusters[1]

\* self.n_clusters after lines 27-33 of cluster_emails: the adaptive choice when
\* it is None, then min(self.n_clusters, n_emails)
ClampedCount(self, matrix) ==
    Min(IF self.n_clusters = None THEN determine_optimal_clusters(Len(matrix))
        ELSE self.n_clusters[1],
        Len(matrix))

\* the single-cluster test with the threshold one lower
NoClusters(n_clusters) == n_clusters < 1

\* self.n_clusters < 2
TooFewClusters(n_clusters) == n_clusters < 2

\* cluster_mask[i] raises IndexError when a list is longer than the label array
AssemblyRaises(matrix, ids, processed) ==
    Len(processed) > Len(matrix) \/ Len(ids) > Len(matrix)

\* the score kept whether or not silhouette_score raised
UncheckedScore(n_emails, lib) == IF n_emails > 1 THEN "score" ELSE "0.0"

\* self.silhouette_score after lines 52-58
SilhouetteScore(n_emails, lib) ==
    IF n_emails > 1 /\ ~lib.silhouette_raises THEN "score" ELSE "0.0"

\* the instance after lines 48-58: fit_predict returned lib.labels
Fitted(self, n_emails, lib) ==
    [ self EXCEPT !.cluster_labels = lib.labels,
                  !.is_fitted = TRUE,
                  !.silhouette_score = SilhouetteScore(n_emails, lib) ]

\* what a call returns and leaves behind: the list, the instance, and what it did
Result(cluster_list, self, path, k, raised) ==
    [ clusters |-> cluster_list, self |-> self,
      did |-> [ path |-> path, kmeans_k |-> k, raised |-> raised ] ]

\* lines 39-70 of cluster_emails: the try block and its handler
run_kmeans(self, matrix, ids, processed, vec, lib) ==
    IF lib.kmeans_raises
    THEN Result(create_single_cluster(processed, ids), self,
                "fallback", self.n_clusters[1], "kmeans")
    ELSE IF AssemblyRaises(matrix, ids, processed)
    THEN Result(create_single_cluster(processed, ids), Fitted(self, Len(matrix), lib),
                "fallback", self.n_clusters[1], "assembly")
    ELSE Result(generate_cluster_info(self.n_clusters[1], processed, ids, vec, matrix,
                                      lib.labels),
                Fitted(self, Len(matrix), lib),
                "kmeans", self.n_clusters[1],
                IF lib.silhouette_raises THEN "silhouette" ELSE "none")

\* lines 35-70 of cluster_emails, self.n_clusters already clamped
after_clamp(self, matrix, ids, processed, vec, lib) ==
    IF TooFewClusters(self.n_clusters[1])
    THEN Result(create_single_cluster(processed, ids), self, "single", 0, "none")
    ELSE run_kmeans(self, matrix, ids, processed, vec, lib)

\* EmailClusterer.cluster_emails.  lib is what the library calls do in this
\* call: kmeans_raises, labels (the result of fit_predict), silhouette_raises.
cluster_emails(self, matrix, ids, processed, vec, lib) ==
    IF EmptyInput(matrix, ids)
    THEN Result(<<>>, self, "empty", 0, "none")
    ELSE after_clamp([ self EXCEPT !.n_clusters = <<ClampedCount(self, matrix)>> ],
                     matrix, ids, processed, vec, lib)

-----------------------------------------------------------------------------
(* EmailVectorizer.fit_transform and the database *)

\* Config.TFIDF_MIN_DF, and Config.TFIDF_MAX_DF in percent
TFIDF_MIN_DF == 2
TFIDF_MAX_DF == 80

\* [email.get('gmail_id') for email in processed_emails]
GmailIds(processed) == List([ i \in 1..Len(processed) |-> processed[i].gmail_id ])

\* EmailVectorizer.__init__
NewVectorizer == [ is_fitted |-> FALSE, feature_names |-> <<>> ]

\* what a call of fit_transform or transform returns and leaves behind; raised
\* names what was raised in the call: "none", "tfidf" or "features" (caught in
\* the call), "ValueError" (raised to the caller, who gets no matrix and no ids)
Transformed(matrix, ids, self) ==
    [ matrix |-> matrix, ids |-> ids, self |-> self, raised |-> "none" ]

\* the except branch without the ids
CaughtWithoutIds(ids, self, raised) ==
    [ Transformed(<<>>, <<>>, self) EXCEPT !.raised = raised ]

\* the except branch of fit_transform and of transform: an empty matrix and the
\* ids collected before the try
Caught(ids, self, raised) == [ Transformed(<<>>, ids, self) EXCEPT !.raised = raised ]

\* the instance marked as fitted as soon as the TF-IDF fit has returned
MarkedAfterRaise(self, tfidf) ==
    IF tfidf.learned
    THEN [ self EXCEPT !.feature_names = tfidf.vocabulary, !.is_fitted = TRUE ]
    ELSE self

\* the vectorizer after a raise in fit_transform: line 44 has stored the
\* vocabulary when the raise came after the TF-IDF fit
AfterRaise(self, tfidf) ==
    IF tfidf.learned THEN [ self EXCEPT !.feature_names = tfidf.vocabulary ] ELSE self

\* EmailVectorizer.fit_transform.  tfidf is what the library calls do in this
\* call: the TF-IDF fit raises, or it learns the vocabulary and then the
\* additional features or the scaler raise, or the combined matrix is built.
fit_transform(self, processed, tfidf) ==
    IF processed = <<>> THEN Transformed(<<>>, <<>>, self)
    ELSE IF tfidf.raises
    THEN Caught(GmailIds(processed), AfterRaise(self, tfidf),
                IF tfidf.learned THEN "features" ELSE "tfidf")
    ELSE Transformed(tfidf.matrix, GmailIds(processed),
                     [ self EXCEPT !.feature_names = tfidf.vocabulary, !.is_fitted = TRUE ])

\* transform with the fitted test inside the try: nothing reaches the caller
transform_caught(self, processed, tfidf) ==
    IF processed = <<>> THEN Transformed(<<>>, <<>>, self)
    ELSE IF ~self.is_fitted \/ tfidf.raises
    THEN Caught(GmailIds(processed), self, "tfidf")
    ELSE Transformed(tfidf.matrix, GmailIds(processed), self)

\* EmailVectorizer.transform.  The fitted test comes first and raises to the
\* caller; tfidf is what the library calls inside the try do.
transform(self, processed, tfidf) ==
    IF ~self.is_fitted THEN [ Transformed(<<>>, <<>>, self) EXCEPT !.raised = "ValueError" ]
    ELSE IF processed = <<>> THEN Transformed(<<>>, <<>>, self)
    ELSE IF tfidf.raises THEN Caught(GmailIds(processed), self, "tfidf")
    ELSE Transformed(tfidf.matrix, GmailIds(processed), self)

\* DatabaseManager after save_emails(emails): the stored emails by gmail_id, no
\* cluster rows, no assignments
NewDb(batch) ==
    [ emails |-> { batch[i].gmail_id : i \in 1..Len(batch) },
      clusters |-> <<>>,
      email_clusters |-> {} ]

\* the database after an earlier fetch and save_emails(batch): it holds an
\* earlier email, the cluster row of that fetch and its assignment as well
AfterEarlierFetch(batch) ==
    [ emails |-> { batch[i].gmail_id : i \in 1..Len(batch) } \cup { "m0" },
      clusters |-> << [ label |-> "All Emails",
                        description |-> "All your recent emails",
                        email_count |-> 1 ] >>,
      email_clusters |-> { <<"m0", 1>> } ]

\* cluster_data of process_and_cluster_emails
cluster_data(cluster_list) ==
    List([ i \in 1..Len(cluster_list) |->
             [ label |-> cluster_list[i].label,
               description |-> cluster_list[i].description,
               email_count |-> cluster_list[i].email_count ] ])

\* assignments of process_and_cluster_emails: <<email, cluster row>> for every
\* email of cluster i that the database holds
assignments(cluster_list, db_emails) ==
    UNION { { <<g, i>> : g \in { cluster_list[i].emails[j].gmail_id :
                                   j \in 1..Len(cluster_list[i].emails) } \cap db_emails } :
            i \in 1..Len(cluster_list) }

\* the rows and the assignments saved without the two DELETE statements
save_without_delete(db_state, cluster_list, failure) ==
    IF cluster_list = <<>> \/ failure = "save_clusters" THEN db_state
    ELSE [ db_state EXCEPT !.clusters = @ \o cluster_data(cluster_list),
                           !.email_clusters =
                               IF failure = "save_email_cluster_assignments" THEN @
                               ELSE @ \cup assignments(cluster_list, db_state.emails) ]

\* lines 236-264 of process_and_cluster_emails: save_clusters replaces the cluster
\* rows and clears the assignments in one transaction, then
\* save_email_cluster_assignments stores the assignments in another; failure
\* names the call that raises
save(db_state, cluster_list, failure) ==
    IF cluster_list = <<>> \/ failure = "save_clusters" THEN db_state
    ELSE [ db_state EXCEPT !.clusters = cluster_data(cluster_list),
                           !.email_clusters =
                               IF failure = "save_email_cluster_assignments" THEN {}
                               ELSE assignments(cluster_list, db_state.emails) ]

\* lines 236-272 of process_and_cluster_emails for the list cluster_emails
\* returned: nothing is stored for the empty list; a database call that raises
\* makes the run return []
stored(cluster_list, db_state, failure) ==
    IF cluster_list = <<>> THEN [ clusters |-> <<>>, db |-> db_state, raised |-> "none" ]
    ELSE [ clusters |-> IF failure = "none" THEN cluster_list ELSE <<>>,
           db |-> save(db_state, cluster_list, failure),
           raised |-> failure ]

\* a run that goes on to the clusterer whatever the matrix
GoesOn(matrix) == FALSE

\* if feature_vectors.size == 0: return []
NothingToCluster(matrix) == Size(matrix) = 0

\* lines 226-272: return [] for the empty matrix, else cluster and store
clustered(t, processed, db_state, lib, failure) ==
    IF NothingToCluster(t.matrix) THEN stored(<<>>, db_state, failure)
    ELSE stored(cluster_emails(NewClusterer(None), t.matrix, t.ids, processed, t.self,
                               lib).clusters,
                db_state, failure)

\* lines 219-272: return [] when no email was processed, else vectorize and go on
vectorized(processed, db_state, tfidf, lib, failure) ==
    IF processed = <<>> THEN stored(<<>>, db_state, failure)
    ELSE clustered(fit_transform(NewVectorizer, processed, tfidf), processed, db_state,
                   lib, failure)

\* process_and_cluster_emails as one call: fresh preprocessor, vectorizer and
\* clusterer; tfidf, lib and failure are what the libraries and the database do
process_and_cluster_emails(batch, db_state, tfidf, lib, failure) ==
    vectorized(preprocess_emails(batch), db_state, tfidf, lib, failure)

-----------------------------------------------------------------------------
(* Inputs *)

\* the largest batch handed to the pipeline or to cluster_emails
MaxEmails == 3

\* raw emails as the mail client delivers them (gmail_id is set by position)
RawNewsletter ==
    [ gmail_id |-> "", subject |-> "Weekly Digest",
      sender |-> "News <digest@mail.example.com>",
      body |-> "<p>Top stories</p> unsubscribe", malformed |-> FALSE ]

RawAlert ==
    [ gmail_id |-> "", subject |-> "Security alert",
      sender |-> "alerts@bank.com",
      body |-> "50% off unsubscribe security alert", malformed |-> FALSE ]

RawPlain ==
    [ gmail_id |-> "", subject |-> "Lunch order", sender |-> "Bob <bob@mail.corp.com>",
      body |-> "see you at 12", malformed |-> FALSE ]

RawNote ==
    [ gmail_id |-> "", subject |-> "Meeting notes", sender |-> "carol",
      body |-> "agenda for the meeting", malformed |-> FALSE ]

RawSale ==
    [ gmail_id |-> "", subject |-> "Big SALE!", sender |-> "Shop <deals@shop.example.com>",
      body |-> "Save 20% <b>today</b> http://shop.example.com/x", malformed |-> FALSE ]

\* short emails
RawPing ==
    [ gmail_id |-> "", subject |-> "Ping", sender |-> "dave@corp.com", body |-> "ok",
      malformed |-> FALSE ]

RawPong == [ RawPing EXCEPT !.subject = "Pong" ]

\* an email of markup only: its cleaned subject and body are empty
RawMarkup ==
    [ gmail_id |-> "", subject |-> "", sender |-> "", body |-> "<div><br/></div>",
      malformed |-> FALSE ]

\* an email one of whose text fields is not a string
RawMalformed == [ RawPlain EXCEPT !.malformed = TRUE ]

\* the gmail_id of the email at position i of a batch
Gid(i) == "m" \o Str(i)

\* the batches of at most n emails drawn from pool, gmail_ids set by position
Batches(pool, n) ==
    UNION { { List([ i \in 1..len |-> [ f[i] EXCEPT !.gmail_id = Gid(i) ] ]) :
              f \in [ 1..len -> pool ] } : len \in 0..n }

\* a vocabulary TfidfVectorizer may learn
Vocabulary == <<"meeting", "zebra">>

FittedVectorizer == [ is_fitted |-> TRUE, feature_names |-> Vocabulary ]

Width == Len(Vocabulary) + Len(additional_names)

\* feature matrices of n rows: no weight at all; one column per row, the
\* columns taken in turn; the first vocabulary term in every row
FlatMatrix(n) == List([ i \in 1..n |-> List([ c \in 1..Width |-> 0 ]) ])
SpreadMatrix(n) ==
    List([ i \in 1..n |->
             List([ c \in 1..Width |-> IF c = ((i - 1) % Width) + 1 THEN 30 ELSE 0 ]) ])
TopicMatrix(n) ==
    List([ i \in 1..n |-> List([ c \in 1..Width |-> IF c = 1 THEN 40 ELSE 0 ]) ])

-----------------------------------------------------------------------------
(* What the libraries may do in one call *)

NoLib == [ kmeans_raises |-> FALSE, labels |-> <<>>, silhouette_raises |-> FALSE ]

\* the library calls of the pipeline as functions of their arguments: what the
\* TF-IDF fit does with the texts of the batch, and what KMeans with a given
\* random_state and silhouette_score do with the matrix
NoLibrary == [ tfidf |-> [ raises |-> TRUE, learned |-> FALSE, matrix |-> <<>>,
                           vocabulary |-> <<>> ],
               kmeans |-> NoLib ]

\* the number of distinct labels
LabelCount(labels) == Cardinality({ labels[i] : i \in 1..Len(labels) })

\* sklearn's silhouette_score raises unless the number of labels is in 2..n-1
SilhouetteDefined(labels) == LabelCount(labels) >= 2 /\ LabelCount(labels) <= Len(labels) - 1

\* KMeans(n_clusters=k).fit_predict on n rows raises, or gives every row a label
\* in 0..k-1 (a label may stay without a member); silhouette_score then raises
\* or not, and always when it is not defined for the labels
LibOutcomes(k, n) ==
    { [ NoLib EXCEPT !.kmeans_raises = TRUE ] } \cup
    { [ kmeans_raises |-> FALSE, labels |-> List(c[1]), silhouette_raises |-> c[2] ] :
        c \in { c \in [ 1..n -> 0..(k - 1) ] \X BOOLEAN :
                  c[2] \/ SilhouetteDefined(List(c[1])) } }

\* the library outcomes that matter for a call: none when k-means is not reached
LibChoices(self, matrix, ids) ==
    IF EmptyInput(matrix, ids) \/ TooFewClusters(ClampedCount(self, matrix))
    THEN { NoLib }
    ELSE LibOutcomes(ClampedCount(self, matrix), Len(matrix))

\* TfidfVectorizer.fit_transform on n texts raises (always when max_df * n is
\* below min_df), or learns a vocabulary and gives a matrix of n rows
TfidfOutcomes(n) ==
    { [ raises |-> TRUE, learned |-> FALSE, matrix |-> <<>>, vocabulary |-> <<>> ] } \cup
    (IF TFIDF_MAX_DF * n < 100 * TFIDF_MIN_DF THEN {}
     ELSE { [ raises |-> TRUE, learned |-> TRUE, matrix |-> <<>>, vocabulary |-> Vocabulary ] }
          \cup { [ raises |-> FALSE, learned |-> TRUE, matrix |-> m, vocabulary |-> Vocabulary ] :
                   m \in { SpreadMatrix(n), TopicMatrix(n) } })

\* every email gives the same text to _combine_text_features: each term is then
\* in every document, above max_df, and the TF-IDF fit is left without a term
NoTermLeft(processed) ==
    \A i \in 1..Len(processed) :
        /\ processed[i].subject = processed[1].subject
        /\ processed[i].body = processed[1].body
        /\ processed[i].sender_domain = processed[1].sender_domain

\* TfidfVectorizer.fit_transform on the texts of the processed emails: it
\* raises when no term is left
TfidfFor(processed) ==
    IF NoTermLeft(processed) THEN { NoLibrary.tfidf } ELSE TfidfOutcomes(Len(processed))

\* TfidfVectorizer.transform and the scaler on n texts, the vocabulary fitted:
\* they raise, or give a matrix of n rows
TransformOutcomes(n) ==
    { [ raises |-> TRUE, learned |-> TRUE, matrix |-> <<>>, vocabulary |-> Vocabulary ] } \cup
    { [ raises |-> FALSE, learned |-> TRUE, matrix |-> m, vocabulary |-> Vocabulary ] :
        m \in { SpreadMatrix(n), TopicMatrix(n) } }

\* the database calls of one run: none raises, or the named one does
DbFailures == { "none", "save_clusters", "save_email_cluster_assignments" }

NoOutcome == [ path |-> "none", kmeans_k |-> 0, raised |-> "none" ]

\* an exception that no handler catches ends the run with the exception
escaped == "raised"

\* the outer handler of process_and_cluster_emails catches the exception and the
\* run ends with return []
handled == "done"

\* what the seeded KMeans may compute for the matrix of TF-IDF outcome t on n emails
KMeansFor(t, n) ==
    IF t.raises THEN { NoLib }
    ELSE LibChoices(NewClusterer(None), t.matrix, List([ i \in 1..n |-> Gid(i) ]))

\* the libraries the processed emails of a batch may meet
Libraries(processed) ==
    UNION { { [ tfidf |-> t, kmeans |-> l ] : l \in KMeansFor(t, Len(processed)) } :
            t \in TfidfFor(processed) }

\* the results of one KMeans call: with an integer seed the call is a function
\* of its arguments, without a seed it may give any of its possible results
KMeansCall(seed, seeded, possible) == IF seed = None THEN possible ELSE { seeded }

-----------------------------------------------------------------------------
(* Spec: one run of process_and_cluster_emails on a fetched batch.  The route *)
(* has saved the batch; the run constructs its preprocessor, vectorizer and   *)
(* clusterer, then preprocesses, vectorizes, clusters, stores and returns.    *)

PipelinePool == { RawNewsletter, RawNote, RawMalformed }

Init ==
    /\ pc = "start"
    /\ emails \in Batches(PipelinePool, MaxEmails)
    /\ processed_emails = <<>>
    /\ feature_vectors = <<>>
    /\ email_ids = <<>>
    /\ vectorizer = NewVectorizer
    /\ n_arg = None
    /\ clusterer = NewClusterer(None)
    /\ clusters = <<>>
    /\ outcome = NoOutcome
    /\ result = None
    /\ provider = NoProvider
    /\ authenticated = FALSE
    /\ db \in { NewDb(emails), AfterEarlierFetch(emails) }
    /\ email = RawPlain
    /\ features = <<>>
    /\ label = <<>>
    /\ returned = <<>>
    /\ library = NoLibrary

\* the call of fit_transform returns r
FitReturns(r) ==
    /\ feature_vectors' = r.matrix
    /\ email_ids' = r.ids
    /\ vectorizer' = r.self

\* the call of cluster_emails returns r
ClusterReturns(r) ==
    /\ clusters' = r.clusters
    /\ clusterer' = r.self
    /\ outcome' = r.did

\* processed_emails = preprocessor.preprocess_emails(emails); return [] if empty
Preprocess ==
    /\ pc = "start"
    /\ processed_emails' = preprocess_emails(emails)
    /\ pc' = IF processed_emails' = <<>> THEN "done" ELSE "preprocessed"
    /\ UNCHANGED <<result, provider, authenticated, returned, library, emails, feature_vectors, email_ids, vectorizer, clusterer, clusters,
                   outcome, n_arg, db, email, features, label>>

\* feature_vectors, email_ids = vectorizer.fit_transform(processed_emails);
\* return [] if feature_vectors.size == 0
Vectorize ==
    /\ pc = "preprocessed"
    /\ \E tfidf \in TfidfFor(processed_emails) :
          FitReturns(fit_transform(vectorizer, processed_emails, tfidf))
    /\ pc' = IF NothingToCluster(feature_vectors') THEN "done" ELSE "vectorized"
    /\ UNCHANGED <<result, provider, authenticated, returned, library, emails, processed_emails, clusterer, clusters, outcome, n_arg, db,
                   email, features, label>>

\* clusters = clusterer.cluster_emails(feature_vectors, email_ids, processed_emails,
\* vectorizer)
Cluster ==
    /\ pc = "vectorized"
    /\ \E lib \in LibChoices(clusterer, feature_vectors, email_ids) :
          ClusterReturns(cluster_emails(clusterer, feature_vectors, email_ids,
                                        processed_emails, vectorizer, lib))
    /\ pc' = "clustered"
    /\ UNCHANGED <<result, provider, authenticated, returned, library, emails, processed_emails, feature_vectors, email_ids, vectorizer,
                   n_arg, db, email, features, label>>

\* lines 236-272: the clusters are saved and returned; a database call that
\* raises is caught by the outer handler, which returns []
Persist ==
    /\ pc = "clustered"
    /\ \E failure \in DbFailures :
          /\ db' = save(db, clusters, failure)
          /\ clusters' = IF failure = "none" THEN clusters ELSE <<>>
          /\ outcome' = [ outcome EXCEPT !.raised = IF failure = "none" THEN @ ELSE failure ]
          /\ pc' = IF failure = "none" THEN "done" ELSE handled
    /\ UNCHANGED <<result, provider, authenticated, returned, library, emails, processed_emails, feature_vectors, email_ids, vectorizer,
                   clusterer, n_arg, email, features, label>>

Next == Preprocess \/ Vectorize \/ Cluster \/ Persist

Spec == Init /\ [][Next]_vars

\* batches of malformed and sparse emails: markup only, a field that is not a
\* string, a few words
SparsePool == { RawMarkup, RawMalformed, RawPing }

InitSparse ==
    /\ pc = "start"
    /\ emails \in Batches(SparsePool, MaxEmails)
    /\ processed_emails = <<>>
    /\ feature_vectors = <<>>
    /\ email_ids = <<>>
    /\ vectorizer = NewVectorizer
    /\ n_arg = None
    /\ clusterer = NewClusterer(None)
    /\ clusters = <<>>
    /\ outcome = NoOutcome
    /\ result = None
    /\ provider = NoProvider
    /\ authenticated = FALSE
    /\ db = NewDb(emails)
    /\ email = RawPlain
    /\ features = <<>>
    /\ label = <<>>
    /\ returned = <<>>
    /\ library = NoLibrary

SpecSparse == InitSparse /\ [][Next]_vars

-----------------------------------------------------------------------------
(* SpecClusterer: one EmailClusterer, constructed with or without a cluster *)
(* count, and one call of cluster_emails on it.                             *)

\* no argument, a count below 2, a count above every batch
ClustererArgs == { None, <<1>>, <<MaxEmails + 1>> }

\* feature dicts as extract_features builds them
ClusterPool ==
    << extract_features(RawNewsletter), extract_features(RawPlain), extract_features(RawNote) >>

\* the lists of at most MaxEmails feature dicts of the pool, in pool order (the
\* labels of k-means then group them in every way), gmail_ids set by position
ProcessedBatches ==
    UNION { { List([ i \in 1..len |-> [ ClusterPool[f[i]] EXCEPT !.gmail_id = Gid(i) ] ]) :
              f \in { g \in [ 1..len -> 1..Len(ClusterPool) ] :
                        \A i \in 1..len, j \in 1..len : i < j => g[i] <= g[j] } } :
            len \in 0..MaxEmails }

\* the arguments of a call for a list of processed emails: <<matrix, ids, vectorizer>>.
\* Parallel arguments as fit_transform returns them, and the arguments that are
\* not parallel: an empty matrix, an empty id list, a matrix one row short.
ClusterInputs(processed) ==
    { <<FlatMatrix(Len(processed)), GmailIds(processed), FittedVectorizer>>,
      <<SpreadMatrix(Len(processed)), GmailIds(processed), FittedVectorizer>>,
      <<<<>>, GmailIds(processed), NewVectorizer>>,
      <<FlatMatrix(Len(processed)), <<>>, FittedVectorizer>>,
      <<FlatMatrix(Max(Len(processed), 1) - 1), GmailIds(processed), FittedVectorizer>> }

InitClusterer ==
    /\ pc = "constructed"
    /\ n_arg \in ClustererArgs
    /\ clusterer = NewClusterer(n_arg)
    /\ processed_emails \in ProcessedBatches
    /\ \E input \in ClusterInputs(processed_emails) :
          /\ feature_vectors = input[1]
          /\ email_ids = input[2]
          /\ vectorizer = input[3]
    /\ clusters = <<>>
    /\ outcome = NoOutcome
    /\ result = None
    /\ provider = NoProvider
    /\ authenticated = FALSE
    /\ emails = <<>>
    /\ db = NewDb(<<>>)
    /\ email = RawPlain
    /\ features = <<>>
    /\ label = <<>>
    /\ returned = <<>>
    /\ library = NoLibrary

\* clusterer.cluster_emails(feature_vectors, email_ids, processed_emails, vectorizer)
ClusterEmails ==
    /\ pc = "constructed"
    /\ \E lib \in LibChoices(clusterer, feature_vectors, email_ids) :
          ClusterReturns(cluster_emails(clusterer, feature_vectors, email_ids,
                                        processed_emails, vectorizer, lib))
    /\ pc' = "returned"
    /\ UNCHANGED <<result, provider, authenticated, returned, library, emails, processed_emails, feature_vectors, email_ids, vectorizer,
                   n_arg, db, email, features, label>>

NextClusterer == ClusterEmails

SpecClusterer == InitClusterer /\ [][NextClusterer]_vars

-----------------------------------------------------------------------------
(* SpecReuse: one EmailClusterer and two calls of cluster_emails on it, each *)
(* on a batch of its own, with the parallel arguments fit_transform returns. *)

\* no argument, and a count of two
ReuseArgs == { None, <<2>> }

\* the batches of 0..MaxEmails feature dicts, the pool taken in turn
ReuseBatches ==
    { List([ i \in 1..len |->
               [ ClusterPool[((i - 1) % Len(ClusterPool)) + 1] EXCEPT !.gmail_id = Gid(i) ] ]) :
      len \in 0..MaxEmails }

\* the arguments of a call on a batch, and the result of the last call dropped
ReuseArguments(batch) ==
    /\ processed_emails' = batch
    /\ feature_vectors' = SpreadMatrix(Len(batch))
    /\ email_ids' = GmailIds(batch)

InitReuse ==
    /\ pc = "constructed"
    /\ n_arg \in ReuseArgs
    /\ clusterer = NewClusterer(n_arg)
    /\ processed_emails = <<>>
    /\ feature_vectors = <<>>
    /\ email_ids = <<>>
    /\ vectorizer = FittedVectorizer
    /\ clusters = <<>>
    /\ outcome = NoOutcome
    /\ result = None
    /\ provider = NoProvider
    /\ authenticated = FALSE
    /\ emails = <<>>
    /\ db = NewDb(<<>>)
    /\ email = RawPlain
    /\ features = <<>>
    /\ label = <<>>
    /\ returned = <<>>
    /\ library = NoLibrary

\* the first call of cluster_emails on the instance
ClusterFirst ==
    /\ pc = "constructed"
    /\ \E batch \in ReuseBatches :
          /\ ReuseArguments(batch)
          /\ \E lib \in LibChoices(clusterer, SpreadMatrix(Len(batch)), GmailIds(batch)) :
                ClusterReturns(cluster_emails(clusterer, SpreadMatrix(Len(batch)),
                                              GmailIds(batch), batch, vectorizer, lib))
    /\ pc' = "clustered_once"
    /\ UNCHANGED <<result, provider, authenticated, returned, library, emails, vectorizer, n_arg, db, email, features, label>>

\* a later call on the same instance.  library.kmeans is what the seeded KMeans
\* and silhouette_score compute for this matrix with the count of a newly
\* constructed instance; the call gets the same when it asks for the same count
ClusterAgain ==
    /\ pc = "clustered_once"
    /\ \E batch \in ReuseBatches :
          /\ ReuseArguments(batch)
          /\ \E fresh \in LibChoices(NewClusterer(n_arg), SpreadMatrix(Len(batch)),
                                     GmailIds(batch)) :
                /\ library' = [ library EXCEPT !.kmeans = fresh ]
                /\ \E lib \in IF ClampedCount(clusterer, SpreadMatrix(Len(batch)))
                                  = ClampedCount(NewClusterer(n_arg), SpreadMatrix(Len(batch)))
                               THEN KMeansCall(random_state, fresh,
                                               LibChoices(clusterer, SpreadMatrix(Len(batch)),
                                                          GmailIds(batch)))
                               ELSE LibChoices(clusterer, SpreadMatrix(Len(batch)),
                                               GmailIds(batch)) :
                      ClusterReturns(cluster_emails(clusterer, SpreadMatrix(Len(batch)),
                                                    GmailIds(batch), batch, vectorizer, lib))
    /\ pc' = "clustered_twice"
    /\ UNCHANGED <<result, provider, authenticated, returned, emails, vectorizer, n_arg, db, email, features, label>>

NextReuse == ClusterFirst \/ ClusterAgain

SpecReuse == InitReuse /\ [][NextReuse]_vars

-----------------------------------------------------------------------------
(* SpecLabel: _generate_cluster_label_and_description on one cluster, as     *)
(* _generate_cluster_info calls it for the emails of one k-means label.      *)

\* the largest cluster handed to the label rules
MaxClusterSize == 5

\* feature dicts as extract_features builds them
LabelPool == { extract_features(e) : e \in { RawNewsletter, RawAlert, RawSale, RawNote } }

LabelClusters == Batches(LabelPool, MaxClusterSize) \ { <<>> }

InitLabel ==
    /\ pc = "grouped"
    /\ processed_emails \in LabelClusters
    /\ feature_vectors = FlatMatrix(Len(processed_emails))
    /\ email_ids = GmailIds(processed_emails)
    /\ vectorizer = FittedVectorizer
    /\ n_arg = None
    /\ clusterer = NewClusterer(None)
    /\ clusters = <<>>
    /\ outcome = NoOutcome
    /\ result = None
    /\ provider = NoProvider
    /\ authenticated = FALSE
    /\ emails = <<>>
    /\ db = NewDb(<<>>)
    /\ email = RawPlain
    /\ features = <<>>
    /\ label = <<>>
    /\ returned = <<>>
    /\ library = NoLibrary

\* label, description = self._generate_cluster_label_and_description(
\*     cluster_emails, vectorizer, cluster_vectors)
LabelCluster ==
    /\ pc = "grouped"
    /\ label' = generate_cluster_label_and_description(processed_emails, vectorizer,
                                                       feature_vectors)
    /\ pc' = "labelled"
    /\ UNCHANGED <<result, provider, authenticated, returned, library, emails, processed_emails, feature_vectors, email_ids, vectorizer,
                   clusterer, clusters, outcome, n_arg, db, email, features>>

NextLabel == LabelCluster

SpecLabel == InitLabel /\ [][NextLabel]_vars

-----------------------------------------------------------------------------
(* SpecContent: _generate_cluster_label_and_description on clusters of few   *)
(* emails with and without a dominant sender domain, with feature matrices   *)
(* in which some, one or no column has weight, and with a vectorizer that is *)
(* fitted or not.                                                            *)

RawTeamLunch ==
    [ gmail_id |-> "", subject |-> "For you and the team lunch", sender |-> "carol",
      body |-> "see you at 12", malformed |-> FALSE ]

RawPullRequest ==
    [ gmail_id |-> "", subject |-> "Pull request", sender |-> "Eve <eve@github.com>",
      body |-> "merged", malformed |-> FALSE ]

\* feature dicts as extract_features builds them
ContentPool ==
    { extract_features(e) :
        e \in { RawTeamLunch, RawPullRequest, RawPlain, RawNote, RawPing, RawNewsletter } }

ContentClusters == Batches(ContentPool, MaxEmails) \ { <<>> }

\* a matrix of n rows with weight 0.40 in column c only
ColumnMatrix(n, c) ==
    List([ i \in 1..n |-> List([ k \in 1..Width |-> IF k = c THEN 40 ELSE 0 ]) ])

\* the matrices of a cluster of n emails: no weight, the first vocabulary term
\* only, the second only, a column per row
ContentMatrices(n) ==
    { FlatMatrix(n), ColumnMatrix(n, 1), ColumnMatrix(n, 2), SpreadMatrix(n) }

InitContent ==
    /\ pc = "grouped"
    /\ processed_emails \in ContentClusters
    /\ feature_vectors \in ContentMatrices(Len(processed_emails))
    /\ email_ids = GmailIds(processed_emails)
    /\ vectorizer \in { FittedVectorizer, [ FittedVectorizer EXCEPT !.is_fitted = FALSE ] }
    /\ n_arg = None
    /\ clusterer = NewClusterer(None)
    /\ clusters = <<>>
    /\ outcome = NoOutcome
    /\ result = None
    /\ provider = NoProvider
    /\ authenticated = FALSE
    /\ emails = <<>>
    /\ db = NewDb(<<>>)
    /\ email = RawPlain
    /\ features = <<>>
    /\ label = <<>>
    /\ returned = <<>>
    /\ library = NoLibrary

\* label, description = self._generate_cluster_label_and_description(
\*     cluster_emails, vectorizer, cluster_vectors)
LabelContent ==
    /\ pc = "grouped"
    /\ label' = generate_cluster_label_and_description(processed_emails, vectorizer,
                                                       feature_vectors)
    /\ pc' = "labelled"
    /\ UNCHANGED <<result, provider, authenticated, returned, library, emails, processed_emails, feature_vectors, email_ids, vectorizer,
                   clusterer, clusters, outcome, n_arg, db, email, features>>

NextContent == LabelContent

SpecContent == InitContent /\ [][NextContent]_vars

-----------------------------------------------------------------------------
(* SpecDomains: the two helpers that classify the sender domain of a         *)
(* processed email, _domain_to_label of the clusterer and                    *)
(* _encode_sender_domain of the vectorizer, each called on one domain.       *)

DomainNames ==
    { "facebook", "amazon", "mybank", "nytimes", "github", "slack", "acme", "newsbank",
      "shop.facebook", "amazonnews", "techcrunch", "media", "university" }

DomainEndings == { ".com", ".org", ".net", ".edu", ".gov", ".io", ".co.uk", ".network",
                   ".community" }

\* sender domains as _extract_domain returns them, lower-cased, and the two
\* values of an email without an address
SenderDomains == { n \o e : n \in DomainNames, e \in DomainEndings } \cup { "", "unknown" }

InitDomains ==
    /\ pc = "given"
    /\ \E d \in SenderDomains : features = [ extract_features(RawPlain) EXCEPT !.sender_domain = d ]
    /\ emails = <<>>
    /\ processed_emails = <<>>
    /\ feature_vectors = <<>>
    /\ email_ids = <<>>
    /\ vectorizer = NewVectorizer
    /\ n_arg = None
    /\ clusterer = NewClusterer(None)
    /\ clusters = <<>>
    /\ outcome = NoOutcome
    /\ result = None
    /\ provider = NoProvider
    /\ authenticated = FALSE
    /\ db = NewDb(<<>>)
    /\ email = RawPlain
    /\ label = <<>>
    /\ returned = <<>>
    /\ library = NoLibrary

\* label = self._domain_to_label(dominant_domain)
DomainToLabel ==
    /\ pc = "given"
    /\ result' = domain_to_label(features.sender_domain)
    /\ pc' = "labelled"
    /\ UNCHANGED <<provider, authenticated, returned, library, emails, processed_emails,
                   feature_vectors, email_ids, vectorizer, clusterer, clusters, outcome,
                   n_arg, db, email, features, label>>

\* self._encode_sender_domain(email.get('sender_domain', ''))
EncodeSenderDomain ==
    /\ pc = "given"
    /\ result' = encode_sender_domain(features.sender_domain)
    /\ pc' = "encoded"
    /\ UNCHANGED <<provider, authenticated, returned, library, emails, processed_emails,
                   feature_vectors, email_ids, vectorizer, clusterer, clusters, outcome,
                   n_arg, db, email, features, label>>

NextDomains == DomainToLabel \/ EncodeSenderDomain

SpecDomains == InitDomains /\ [][NextDomains]_vars

-----------------------------------------------------------------------------
(* SpecFeatures: EmailPreprocessor.extract_features on one email.            *)

FeatureSubjects == { "", "Hello", "Weekly Digest", "Security alert", "Big SALE!" }

FeatureSenders ==
    { "carol", "News <noreply@mail.example.com>", "alerts@bank.com",
      "Jane Doe <jane@mail.example.com>", "a@b@mail.example.com", "bob@" }

FeatureBodies ==
    { "", "see you at 12", "50% off unsubscribe security alert",
      "50% off! Click to unsubscribe. Security alert: free gift",
      "Save 20% <b>today</b> http://shop.example.com/x", "please unsubscribe",
      "status report attached" }

InitFeatures ==
    /\ pc = "fetched"
    /\ \E subject \in FeatureSubjects, sender \in FeatureSenders, body \in FeatureBodies :
          email = [ gmail_id |-> Gid(1), subject |-> subject, sender |-> sender,
                    body |-> body, malformed |-> FALSE ]
    /\ features = <<>>
    /\ emails = <<>>
    /\ processed_emails = <<>>
    /\ feature_vectors = <<>>
    /\ email_ids = <<>>
    /\ vectorizer = NewVectorizer
    /\ n_arg = None
    /\ clusterer = NewClusterer(None)
    /\ clusters = <<>>
    /\ outcome = NoOutcome
    /\ result = None
    /\ provider = NoProvider
    /\ authenticated = FALSE
    /\ db = NewDb(<<>>)
    /\ label = <<>>
    /\ returned = <<>>
    /\ library = NoLibrary

\* features = preprocessor.extract_features(email)
ExtractFeatures ==
    /\ pc = "fetched"
    /\ features' = extract_features(email)
    /\ pc' = "extracted"
    /\ UNCHANGED <<result, provider, authenticated, returned, library, emails, processed_emails, feature_vectors, email_ids, vectorizer,
                   clusterer, clusters, outcome, n_arg, db, email, label>>

NextFeatures == ExtractFeatures

SpecFeatures == InitFeatures /\ [][NextFeatures]_vars

-----------------------------------------------------------------------------
(* SpecVectorizer: one EmailVectorizer and two calls on it, each fit_transform *)
(* or transform, each on a list of processed emails of its own.               *)

InitVectorizer ==
    /\ pc = "constructed"
    /\ vectorizer = NewVectorizer
    /\ processed_emails = <<>>
    /\ feature_vectors = <<>>
    /\ email_ids = <<>>
    /\ outcome = NoOutcome
    /\ result = None
    /\ provider = NoProvider
    /\ authenticated = FALSE
    /\ n_arg = None
    /\ clusterer = NewClusterer(None)
    /\ clusters = <<>>
    /\ emails = <<>>
    /\ db = NewDb(<<>>)
    /\ email = RawPlain
    /\ features = <<>>
    /\ label = <<>>
    /\ returned = <<>>
    /\ library = NoLibrary

\* the call named path returns r, or raises r.raised to the caller, who then
\* keeps what it had
VectorizerReturns(path, r) ==
    /\ IF r.raised = "ValueError"
       THEN UNCHANGED <<feature_vectors, email_ids, vectorizer>>
       ELSE FitReturns(r)
    /\ outcome' = [ path |-> path, kmeans_k |-> 0, raised |-> r.raised ]
    /\ pc' = IF pc = "constructed" THEN "first" ELSE "second"
    /\ UNCHANGED <<result, provider, authenticated, returned, library, emails, clusterer, clusters, n_arg, db, email, features, label>>

\* feature_vectors, email_ids = vectorizer.fit_transform(processed_emails)
FitTransform ==
    /\ pc \in { "constructed", "first" }
    /\ \E batch \in ProcessedBatches :
          /\ processed_emails' = batch
          /\ \E tfidf \in TfidfFor(batch) :
                VectorizerReturns("fit_transform", fit_transform(vectorizer, batch, tfidf))

\* feature_vectors, email_ids = vectorizer.transform(processed_emails)
Transform ==
    /\ pc \in { "constructed", "first" }
    /\ \E batch \in ProcessedBatches :
          /\ processed_emails' = batch
          /\ \E tfidf \in TransformOutcomes(Len(batch)) :
                VectorizerReturns("transform", transform(vectorizer, batch, tfidf))

NextVectorizer == FitTransform \/ Transform

SpecVectorizer == InitVectorizer /\ [][NextVectorizer]_vars

-----------------------------------------------------------------------------
(* SpecRuns: two independent runs of process_and_cluster_emails on the same   *)
(* fetched batch.  The libraries are fixed for the batch; whether a database  *)
(* call raises is open in every run.                                          *)

RunPool == << RawPing, RawPong >>

\* the batches of at most MaxEmails emails of the pool, in pool order
RunBatches ==
    UNION { { List([ i \in 1..len |-> [ RunPool[f[i]] EXCEPT !.gmail_id = Gid(i) ] ]) :
              f \in { g \in [ 1..len -> 1..Len(RunPool) ] :
                        \A i \in 1..len, j \in 1..len : i < j => g[i] <= g[j] } } :
            len \in 0..MaxEmails }

InitRuns ==
    /\ pc = "idle"
    /\ emails \in RunBatches
    /\ library \in Libraries(preprocess_emails(emails))
    /\ returned = <<>>
    /\ db = NewDb(emails)
    /\ clusters = <<>>
    /\ processed_emails = <<>>
    /\ feature_vectors = <<>>
    /\ email_ids = <<>>
    /\ vectorizer = NewVectorizer
    /\ n_arg = None
    /\ clusterer = NewClusterer(None)
    /\ outcome = NoOutcome
    /\ result = None
    /\ provider = NoProvider
    /\ authenticated = FALSE
    /\ email = RawPlain
    /\ features = <<>>
    /\ label = <<>>

\* the run returns r.clusters and leaves the database r.db
RunReturns(r) ==
    /\ clusters' = r.clusters
    /\ db' = r.db
    /\ returned' = Append(returned, [ clusters |-> r.clusters, raised |-> r.raised ])

\* clusters = process_and_cluster_emails(emails)
Run ==
    /\ pc \in { "idle", "ran_once" }
    /\ \E lib \in KMeansCall(random_state, library.kmeans,
                              KMeansFor(library.tfidf, Len(emails))),
          failure \in DbFailures :
          RunReturns(process_and_cluster_emails(emails, db, library.tfidf, lib, failure))
    /\ pc' = IF pc = "idle" THEN "ran_once" ELSE "ran_twice"
    /\ UNCHANGED <<result, provider, authenticated, emails, library, processed_emails, feature_vectors, email_ids,
                   vectorizer, clusterer, outcome, n_arg, email, features, label>>

NextRuns == Run

SpecRuns == InitRuns /\ [][NextRuns]_vars

-----------------------------------------------------------------------------
(* Properties of the pipeline (Spec) *)

\* the gmail_ids of the emails of the clusters, cluster after cluster
RECURSIVE ClusteredIds(_)
ClusteredIds(cluster_list) ==
    IF cluster_list = <<>> THEN <<>>
    ELSE GmailIds(Head(cluster_list).emails) \o ClusteredIds(Tail(cluster_list))

\* every id of ids is once in the clusters, and the clusters hold nothing else
ExactlyOnce(ids, cluster_list) ==
    /\ Len(ClusteredIds(cluster_list)) = Len(ids)
    /\ \A i \in 1..Len(ids) :
          Cardinality({ j \in 1..Len(ClusteredIds(cluster_list)) :
                          ClusteredIds(cluster_list)[j] = ids[i] }) = 1

\* C1 as stated: when the run has returned, an empty batch gave the empty list
\* and a non-empty batch gave clusters that hold every input email exactly once.
C1_PartitionOfInput ==
    pc = "done" =>
        IF emails = <<>> THEN clusters = <<>>
        ELSE ExactlyOnce(GmailIds(emails), clusters)

\* C1, amended: the list cluster_emails returns inside the pipeline, and every
\* non-empty list the pipeline returns, holds every email that preprocess_emails
\* kept exactly once and nothing else; the pipeline returns the empty list for
\* an empty batch, and returns it only when no email was kept, when fit_transform
\* gave an empty matrix, or when a database call raised.
C1_PartitionOfProcessed ==
    /\ pc = "clustered" => ExactlyOnce(GmailIds(processed_emails), clusters)
    /\ pc = "done" =>
          /\ emails = <<>> => clusters = <<>>
          /\ clusters # <<>> => ExactlyOnce(GmailIds(processed_emails), clusters)
          /\ clusters = <<>> =>
                \/ processed_emails = <<>>
                \/ Size(feature_vectors) = 0
                \/ outcome.raised \in DbFailures \ {"none"}

\* a run that returned several clusters for a batch of three emails
C1_Witness ==
    /\ pc = "done"
    /\ Len(emails) = 3
    /\ Len(clusters) >= 2
    /\ outcome.path = "kmeans"
    /\ ExactlyOnce(GmailIds(emails), clusters)

-----------------------------------------------------------------------------
(* Properties of cluster_emails (SpecClusterer) *)

\* the single cluster of _create_single_cluster for the arguments of the call
AllEmailsCluster ==
    [ id |-> 1,
      label |-> "All Emails",
      description |-> "All your recent emails",
      email_count |-> Len(processed_emails),
      emails |-> processed_emails,
      email_ids |-> email_ids ]

\* C2: in the list a call returned, email_count does not increase from one
\* cluster to the next and the cluster at position k has id k.
C2_SortedAndNumbered ==
    pc = "returned" =>
        \A i \in 1..Len(clusters) :
            /\ clusters[i].id = i
            /\ i < Len(clusters) => clusters[i].email_count >= clusters[i + 1].email_count

\* k-means left label 0 without a member and gave the larger group the higher
\* label: the list has two clusters, the larger one first
C2_Witness ==
    /\ pc = "returned"
    /\ outcome.path = "kmeans"
    /\ clusterer.cluster_labels = <<1, 2, 2>>
    /\ Len(clusters) = 2
    /\ clusters[1].email_ids = <<Gid(2), Gid(3)>>
    /\ clusters[2].email_ids = <<Gid(1)>>

\* C3 as stated: a clusterer built with no argument uses, for a non-empty batch
\* of n rows, the count of the size table (2 below 10 rows, 3 below 30, ...),
\* no larger than n.
C3_AdaptiveCount ==
    (pc = "returned" /\ n_arg = None /\ outcome.path # "empty") =>
        clusterer.n_clusters =
            <<Min(determine_optimal_clusters(Len(feature_vectors)), Len(feature_vectors))>>

\* C4: when the count after the clamp is below 2, the call runs no k-means and
\* returns the one cluster "All Emails" with id 1 and all the emails of the call.
C4_SingleCluster ==
    (pc = "returned" /\ outcome.path # "empty" /\ clusterer.n_clusters[1] < 2) =>
        /\ outcome.path = "single"
        /\ outcome.kmeans_k = 0
        /\ ~clusterer.is_fitted
        /\ clusters = <<AllEmailsCluster>>

\* a batch of exactly one email with a non-empty matrix, on a default clusterer
C4_Witness ==
    /\ pc = "returned"
    /\ n_arg = None
    /\ Len(processed_emails) = 1
    /\ Size(feature_vectors) > 0
    /\ clusters = <<AllEmailsCluster>>

\* C5: the count handed to k-means is at most the number of rows, and the list
\* returned has at most as many clusters as the matrix has rows.
C5_CountClamped ==
    pc = "returned" =>
        /\ outcome.kmeans_k <= Len(feature_vectors)
        /\ Len(clusters) <= Len(feature_vectors)

\* more clusters requested than rows: k-means ran with one cluster per row
C5_Witness ==
    /\ pc = "returned"
    /\ n_arg # None
    /\ n_arg[1] > Len(feature_vectors)
    /\ outcome.path = "kmeans"
    /\ outcome.kmeans_k = Len(feature_vectors)
    /\ Len(clusters) = Len(feature_vectors)
    /\ Len(clusters) >= 2

\* C6: with an empty matrix or an empty id list the call returns the empty
\* list, nothing raises, k-means does not run and the instance is unchanged.
C6_EmptyInput ==
    (pc = "returned" /\ (Size(feature_vectors) = 0 \/ Len(email_ids) = 0)) =>
        /\ clusters = <<>>
        /\ outcome = [ path |-> "empty", kmeans_k |-> 0, raised |-> "none" ]
        /\ clusterer = NewClusterer(n_arg)
        /\ ~clusterer.is_fitted

\* a non-empty matrix with an empty id list
C6_Witness ==
    /\ pc = "returned"
    /\ Size(feature_vectors) > 0
    /\ Len(processed_emails) >= 2
    /\ email_ids = <<>>
    /\ clusters = <<>>

\* the number of emails in the clusters of a list
RECURSIVE TotalCount(_)
TotalCount(cluster_list) ==
    IF cluster_list = <<>> THEN 0
    ELSE Head(cluster_list).email_count + TotalCount(Tail(cluster_list))

\* C7: a call always returns a list.  When k-means or the assembly of the
\* clusters raised, it is the one cluster "All Emails" with all the emails of
\* the call.  When only silhouette_score raised, the score is 0.0 and the
\* clusters of the k-means labels are returned.
C7_Fallback ==
    pc = "returned" =>
        /\ outcome.path \in {"empty", "single", "fallback", "kmeans"}
        /\ outcome.raised \in {"kmeans", "assembly"} =>
              /\ outcome.path = "fallback"
              /\ clusters = <<AllEmailsCluster>>
        /\ outcome.raised = "silhouette" =>
              /\ outcome.path = "kmeans"
              /\ clusterer.silhouette_score = "0.0"
              /\ clusterer.is_fitted
              /\ \A i \in 1..Len(clusters) :
                    /\ clusters[i].label # "All Emails"
                    /\ clusters[i].emails =
                           Values(processed_emails,
                                  SelectSeq(List([ j \in 1..Len(processed_emails) |-> j ]),
                                            LAMBDA j : clusterer.cluster_labels[j] =
                                                       clusterer.cluster_labels[
                                                           CHOOSE m \in 1..Len(processed_emails) :
                                                               processed_emails[m] =
                                                                   clusters[i].emails[1]]))
              /\ TotalCount(clusters) = Len(processed_emails)

\* k-means raised on a batch of three emails: the call returned the fallback
C7_Witness ==
    /\ pc = "returned"
    /\ outcome.raised = "kmeans"
    /\ Len(processed_emails) = 3
    /\ clusters = <<AllEmailsCluster>>
    /\ ~clusterer.is_fitted

\* C9 as stated: the description of every cluster of a returned list contains
\* the number email_count of that cluster.
C9_CountInEveryDescription ==
    pc = "returned" =>
        \A i \in 1..Len(clusters) :
            Contains(clusters[i].description, Str(clusters[i].email_count))

\* C9, amended: the description of every cluster built from the k-means labels
\* ends with "(<email_count> emails)"; the description of the single cluster
\* "All Emails" is "All your recent emails", without a number.
C9_CountInKMeansDescriptions ==
    pc = "returned" =>
        \A i \in 1..Len(clusters) :
            IF outcome.path = "kmeans"
            THEN /\ Len(clusters[i].description) > Len(Str(clusters[i].email_count)) + 9
                 /\ Slice(clusters[i].description,
                          Len(clusters[i].description) - Len(Str(clusters[i].email_count)) - 9,
                          Len(clusters[i].description))
                    = " (" \o Str(clusters[i].email_count) \o " emails)"
            ELSE /\ clusters[i].description = "All your recent emails"
                 /\ ~Contains(clusters[i].description, Str(clusters[i].email_count))

\* k-means clusters whose descriptions come from the flag rule and from the
\* subject words
C9_Witness ==
    /\ pc = "returned"
    /\ outcome.path = "kmeans"
    /\ Len(clusters) = 2
    /\ clusters[1].description = "Emails containing meeting, notes (2 emails)"
    /\ clusters[2].description = "Newsletter and subscription emails (1 emails)"

-----------------------------------------------------------------------------
(* Properties of the label rules (SpecLabel) *)

\* the number of emails of the cluster that carry the flag
Flagged(field) ==
    Cardinality({ i \in 1..Len(processed_emails) : processed_emails[i][field] })

\* strictly more than 60% of the cluster: count / size > 3 / 5
MoreThan60(count) == 5 * count > 3 * Len(processed_emails)

CascadeLabels ==
    {"Newsletters & Subscriptions", "Notifications & Alerts", "Promotions & Marketing"}

-----------------------------------------------------------------------------
(* Properties of extract_features (SpecFeatures) *)

\* C10 as stated: for an email whose body contains "50% off", "unsubscribe" and
\* "security alert", extract_features sets is_promotional, is_newsletter and
\* is_notification all to true.
C10_AllThreeSignals ==
    (/\ pc = "extracted"
     /\ Contains(email.body, "50% off")
     /\ Contains(email.body, "unsubscribe")
     /\ Contains(email.body, "security alert")) =>
        /\ features.is_promotional
        /\ features.is_newsletter
        /\ features.is_notification

\* an email whose body holds the three phrases and nothing else, under a subject
\* without keywords: extract_features has set two of the three flags
C10_FailingInput ==
    /\ pc = "extracted"
    /\ email.subject = "Hello"
    /\ email.body = "50% off unsubscribe security alert"
    /\ features.body = "off unsubscribe security alert"
    /\ features.is_newsletter
    /\ features.is_notification
    /\ ~features.is_promotional

-----------------------------------------------------------------------------
(* Properties of _extract_domain (SpecFeatures) *)

\* the start of the first non-empty pair of angle brackets of s, 0 if none
BracketStart(s) ==
    MinOrZero({ i \in 1..Len(s) : /\ At(s, i) = "<"
                                  /\ At(s, i + 1) # ">"
                                  /\ \E j \in (i + 2)..Len(s) : At(s, j) = ">" })

\* the address of a sender: what stands between the angle brackets that open at
\* o, the whole sender when o = 0
BracketAddress(s, o) ==
    IF o = 0 THEN s
    ELSE Slice(s, o + 1, MinOrZero({ j \in (o + 1)..Len(s) : At(s, j) = ">" }) - 1)

\* the positions of '@' in s
AtSigns(s) == { i \in 1..Len(s) : At(s, i) = "@" }

\* d without one leading "mail.", "smtp.", "pop." or "imap."
OnePrefixRemoved(d) ==
    IF \E p \in { "mail.", "smtp.", "pop.", "imap." } : Slice(d, 1, Len(p)) = p
    THEN Slice(d, Len(CHOOSE p \in { "mail.", "smtp.", "pop.", "imap." } :
                        Slice(d, 1, Len(p)) = p) + 1, Len(d))
    ELSE d

\* the domains the statement allows for an address: "unknown" without '@', else
\* the lower-cased text after the first or after the last '@', one prefix removed
StatedDomains(addr) ==
    IF AtSigns(addr) = {} THEN { "unknown" }
    ELSE { OnePrefixRemoved(Lower(Slice(addr, a + 1, Len(addr)))) :
             a \in { MinOrZero(AtSigns(addr)), MaxOrZero(AtSigns(addr)) } }

\* C11: for every sender, _extract_domain returns the lower-cased text after the
\* '@' of the address (the text inside angle brackets if there is one, else the
\* whole sender) with one leading mail prefix removed, and "unknown" when the
\* address has no '@'.
C11_DomainExtraction ==
    pc = "extracted" =>
        features.sender_domain \in StatedDomains(BracketAddress(email.sender,
                                                                BracketStart(email.sender)))

\* the sender of the statement's example gives "example.com"
C11_Example ==
    (pc = "extracted" /\ email.sender = "Jane Doe <jane@mail.example.com>") =>
        features.sender_domain = "example.com"

\* an address with two '@' has been handled: the domain is the text between them
C11_FailingInput ==
    /\ pc = "extracted"
    /\ email.sender = "a@b@mail.example.com"
    /\ features.sender_domain = "b"

-----------------------------------------------------------------------------
(* Properties of preprocess_emails (Spec) *)

\* the emails of the batch whose feature extraction does not raise, in input order
Extractable == SelectSeq(emails, LAMBDA e : ~e.malformed)

\* C12: preprocess_emails leaves out the emails whose feature extraction raises
\* and nothing else: the output has one record per other email, in input order,
\* and each record carries the gmail_id and the sender of its input email.
C12_SkipsOnlyFailures ==
    pc # "start" =>
        /\ Len(processed_emails) = Len(Extractable)
        /\ \A i \in 1..Len(processed_emails) :
              /\ processed_emails[i].gmail_id = Extractable[i].gmail_id
              /\ processed_emails[i].sender = Extractable[i].sender

\* a batch of three whose second email raised: the first and the third were kept
C12_Witness ==
    /\ pc # "start"
    /\ Len(emails) = 3
    /\ emails[2].malformed
    /\ GmailIds(processed_emails) = <<emails[1].gmail_id, emails[3].gmail_id>>

-----------------------------------------------------------------------------
(* Properties of the vectorizer (SpecVectorizer) *)

\* ids is parallel to the list of processed emails: ids[i] is the gmail_id of email i
ParallelIds(ids, processed) ==
    /\ Len(ids) = Len(processed)
    /\ \A i \in 1..Len(ids) : ids[i] = processed[i].gmail_id

\* C13: a call of fit_transform never raises to its caller; it returns the
\* gmail_ids of all emails of the batch in input order; when the TF-IDF fit,
\* the additional features or the scaler raised the matrix is empty, and
\* otherwise the matrix has one row per email.
C13_FailsSoft ==
    outcome.path = "fit_transform" =>
        /\ outcome.raised \in { "none", "tfidf", "features" }
        /\ ParallelIds(email_ids, processed_emails)
        /\ outcome.raised # "none" => feature_vectors = <<>>
        /\ outcome.raised = "none" => Len(feature_vectors) = Len(processed_emails)

\* the scaler raised on a batch of three: an empty matrix and three ids came back
C13_Witness ==
    /\ outcome.path = "fit_transform"
    /\ outcome.raised = "features"
    /\ feature_vectors = <<>>
    /\ Len(email_ids) = 3

\* C14: transform on a vectorizer on which no fit_transform has succeeded raises
\* ValueError to the caller, for every list of emails, the empty one included.
C14_TransformBeforeFit ==
    (outcome.path = "transform" /\ ~vectorizer.is_fitted) => outcome.raised = "ValueError"

\* a fit_transform that failed after learning the vocabulary, then transform on
\* the empty list: it raised
C14_Witness ==
    /\ pc = "second"
    /\ outcome.path = "transform"
    /\ outcome.raised = "ValueError"
    /\ ~vectorizer.is_fitted
    /\ vectorizer.feature_names # <<>>
    /\ processed_emails = <<>>

-----------------------------------------------------------------------------
(* Properties of two runs (SpecRuns) *)

-----------------------------------------------------------------------------
(* The pipeline on malformed and sparse input (SpecSparse) *)

\* a list of clusters as the pipeline returns it: numbered from 1, each with
\* its count
DefinedList(cluster_list) ==
    \A i \in 1..Len(cluster_list) :
        /\ cluster_list[i].id = i
        /\ cluster_list[i].email_count = Len(cluster_list[i].emails)

\* how far the run has come; an exception that left the function counts as nowhere
Position(p) ==
    CASE p = "start" -> 0
      [] p = "preprocessed" -> 1
      [] p = "vectorized" -> 2
      [] p = "clustered" -> 3
      [] p = "done" -> 4
      [] OTHER -> -1

\* the run has returned, or its next statement has an outcome
CanGoOn ==
    CASE pc = "start" -> TRUE
      [] pc = "preprocessed" -> TfidfFor(processed_emails) # {}
      [] pc = "vectorized" -> LibChoices(clusterer, feature_vectors, email_ids) # {}
      [] pc = "clustered" -> DbFailures # {}
      [] pc = "done" -> TRUE
      [] OTHER -> FALSE

\* C16: a run of process_and_cluster_emails is never left by an exception and
\* never stuck, every step takes it further, and when it has returned the
\* result is a list of clusters, whatever the batch holds and whatever the
\* libraries and the database raise.
C16_AlwaysReturns ==
    /\ [](Position(pc) >= 0 /\ CanGoOn /\ (pc = "done" => DefinedList(clusters)))
    /\ [][Position(pc') > Position(pc)]_vars

\* a batch of three emails of markup only has been run: every cleaned text is
\* empty, the TF-IDF fit found no term, the run returned the empty list
C16_Witness ==
    /\ pc = "done"
    /\ Len(processed_emails) = 3
    /\ \A i \in 1..3 : processed_emails[i].subject = "" /\ processed_emails[i].body = ""
    /\ ~vectorizer.is_fitted
    /\ clusters = <<>>

-----------------------------------------------------------------------------
(* An EmailClusterer used for more than one batch (SpecReuse) *)

\* C17: a call of cluster_emails on an instance that clustered another batch
\* before returns the clusters that a newly constructed EmailClusterer with the
\* same count argument returns for the batch of the call.
C17_SameAsFresh ==
    pc = "clustered_twice" =>
        clusters = cluster_emails(NewClusterer(n_arg), feature_vectors, email_ids,
                                  processed_emails, vectorizer, library.kmeans).clusters

\* the instance keeps the count it was constructed with
C17_CountKept ==
    pc # "constructed" /\ processed_emails # <<>> =>
        clusterer.n_clusters = NewClusterer(n_arg).n_clusters

\* the second call is on the larger batch and a new instance runs k-means on it
C17_FailingInput ==
    /\ pc = "clustered_twice"
    /\ Len(processed_emails) = 2
    /\ clusterer.n_clusters = <<1>>
    /\ outcome.path = "single"
    /\ ~library.kmeans.kmeans_raises

-----------------------------------------------------------------------------
(* What a run leaves in the database (Spec) *)

\* the stored emails linked to the stored cluster at position i
LinkedTo(i) == { pair[1] : pair \in { p \in db.email_clusters : p[2] = i } }

\* the gmail_ids of the emails of a cluster
GmailIdsOf(cluster) == { cluster.emails[j].gmail_id : j \in 1..Len(cluster.emails) }

\* C18: when the run has returned a list of clusters that is not empty, the
\* cluster rows of the database are the label, description and email_count of
\* the returned clusters in their order and nothing else, every assignment
\* refers to one of these rows, the emails assigned to the row at position i
\* are the stored emails with the gmail_ids of cluster i, and every email of a
\* returned cluster has exactly one assignment.
C18_PersistedState ==
    pc = "done" /\ clusters # <<>> =>
        /\ Len(db.clusters) = Len(clusters)
        /\ \A i \in 1..Len(clusters) :
              /\ db.clusters[i].label = clusters[i].label
              /\ db.clusters[i].description = clusters[i].description
              /\ db.clusters[i].email_count = clusters[i].email_count
              /\ LinkedTo(i) = GmailIdsOf(clusters[i])
              /\ LinkedTo(i) \subseteq db.emails
              /\ \A g \in GmailIdsOf(clusters[i]) :
                    Cardinality({ p \in db.email_clusters : p[1] = g }) = 1
        /\ \A p \in db.email_clusters : p[2] \in 1..Len(clusters)

\* a run on a database that held the cluster and the assignment of an earlier
\* fetch has returned two clusters
C18_Witness ==
    /\ pc = "done"
    /\ Len(clusters) = 2
    /\ "m0" \in db.emails
    /\ Cardinality(db.email_clusters) = Len(processed_emails)
    /\ Len(processed_emails) = 3

-----------------------------------------------------------------------------
(* The clusters of one call (SpecClusterer) *)

\* C19: when the ids handed to cluster_emails are parallel to the processed
\* emails, every cluster of the returned list holds at least one email, its
\* email_count is the length of its emails and of its email_ids, and the id at
\* each position is the gmail_id of the email at that position.
C19_ClustersConsistent ==
    pc = "returned" /\ ParallelIds(email_ids, processed_emails) =>
        \A i \in 1..Len(clusters) :
            /\ clusters[i].email_count >= 1
            /\ clusters[i].email_count = Len(clusters[i].emails)
            /\ Len(clusters[i].emails) = Len(clusters[i].email_ids)
            /\ \A j \in 1..Len(clusters[i].emails) :
                  clusters[i].email_ids[j] = clusters[i].emails[j].gmail_id

\* k-means ran with three labels on three emails and left one label without a
\* member: the list has the two clusters of the other labels
C19_Witness ==
    /\ pc = "returned"
    /\ ParallelIds(email_ids, processed_emails)
    /\ outcome.path = "kmeans"
    /\ outcome.kmeans_k = 3
    /\ LabelCount(clusterer.cluster_labels) = 2
    /\ Len(clusters) = 2
    /\ clusters[1].email_count = 2

-----------------------------------------------------------------------------
(* The order of the steps of a run (Spec) *)

\* the run is at the clusterer or behind it only with processed emails and a
\* matrix that is not empty; a run that has returned without them returned the
\* empty list and left the clusterer as constructed and the database as the
\* route left it
OrderedState ==
    /\ pc \in { "vectorized", "clustered" } =>
          processed_emails # <<>> /\ Size(feature_vectors) > 0
    /\ pc = "preprocessed" => processed_emails # <<>>
    /\ pc = "done" /\ (processed_emails = <<>> \/ Size(feature_vectors) = 0) =>
          /\ clusters = <<>>
          /\ clusterer = NewClusterer(None)
          /\ db \in { NewDb(emails), AfterEarlierFetch(emails) }

\* each step changes what belongs to it and starts where the step before ended
OrderedStep ==
    /\ processed_emails' # processed_emails => pc = "start"
    /\ (vectorizer' # vectorizer \/ feature_vectors' # feature_vectors
          \/ email_ids' # email_ids) =>
          pc = "preprocessed" /\ processed_emails' = processed_emails
    /\ clusterer' # clusterer => pc = "vectorized"
    /\ clusters' # clusters =>
          pc = "vectorized" \/ (pc = "clustered" /\ clusters' = <<>>)
    /\ db' # db => pc = "clustered"
    /\ pc' = "preprocessed" => pc = "start"
    /\ pc' = "vectorized" => pc = "preprocessed"
    /\ pc' = "clustered" => pc = "vectorized"
    /\ pc = "start" => (pc' = "done" <=> processed_emails' = <<>>)
    /\ pc = "preprocessed" => (pc' = "done" <=> Size(feature_vectors') = 0)
    /\ pc \in { "start", "preprocessed" } /\ pc' = "done" =>
          clusters' = <<>> /\ clusterer' = clusterer /\ db' = db

\* C20: in a run of process_and_cluster_emails the vectorizer is called only
\* when preprocessing has returned, the clusterer only when fit_transform has
\* returned a matrix that is not empty, the database only when cluster_emails
\* has returned; when preprocessing returns no email or fit_transform an empty
\* matrix the run ends there with the empty list, the clusterer and the
\* tables of clusters and assignments untouched.
C20_PipelineOrder == []OrderedState /\ [][OrderedStep]_vars

\* the TF-IDF fit raised on a batch of processed emails: the run has ended
\* with the empty list, the rows of the earlier fetch still in the database
C20_Witness ==
    /\ pc = "done"
    /\ Len(processed_emails) = 3
    /\ Size(feature_vectors) = 0
    /\ email_ids = GmailIds(processed_emails)
    /\ clusters = <<>>
    /\ clusterer = NewClusterer(None)
    /\ db = AfterEarlierFetch(emails)

-----------------------------------------------------------------------------
(* Content-based labels (SpecContent) *)

\* none of the three flags is set in more than 60% of the emails of the cluster
NoFlagRule(members) ==
    \A flag \in { "is_newsletter", "is_notification", "is_promotional" } :
        10 * Cardinality({ i \in 1..Len(members) : members[i][flag] })
            <= 6 * Len(members)

\* how many emails of the cluster have the sender domain d
DomainCount(members, d) ==
    Cardinality({ i \in 1..Len(members) : members[i].sender_domain = d })

\* a domain other than "unknown" with more than half of the emails
DominantDomains(members) ==
    { d \in { members[i].sender_domain : i \in 1..Len(members) } :
        d # "unknown" /\ 2 * DomainCount(members, d) > Len(members) }

\* the label the top features give: the category of the first feature with a
\* keyword of the table, else the first feature, else "Mixed Content"
LabelOfFeatures(feats) ==
    IF \E f \in 1..Len(feats) : CategoryOf(Lower(feats[f])) # 0
    THEN feature_categories[
             CategoryOf(Lower(feats[MinOrZero({ f \in 1..Len(feats) :
                                                  CategoryOf(Lower(feats[f])) # 0 })]))][2]
    ELSE IF feats # <<>> THEN Title(feats[1]) \o " Related"
    ELSE "Mixed Content"

\* the label came from the feature rule
FeatureRuleApplies ==
    /\ pc = "labelled"
    /\ NoFlagRule(processed_emails)
    /\ DominantDomains(processed_emails) = {}

\* C21: when no flag rule matches and no sender domain is dominant, the label
\* is the one the top features of the vectorizer give: a category of the table,
\* else "{feature} Related", and "Mixed Content" when no feature has a mean
\* weight above 0.01.
C21_FeatureLabel ==
    FeatureRuleApplies =>
        label[1] = LabelOfFeatures(get_top_features_for_cluster(vectorizer,
                                                                feature_vectors, 5))

\* the same for the clusters in which a feature has a mean weight above 0.01
C21_FeatureLabelWhenAny ==
    FeatureRuleApplies
    /\ get_top_features_for_cluster(vectorizer, feature_vectors, 5) # <<>> =>
        label[1] = LabelOfFeatures(get_top_features_for_cluster(vectorizer,
                                                                feature_vectors, 5))

\* no flag rule, no dominant domain and no weight in the matrix: the label is
\* that of the subject words
C21_FailingInput ==
    /\ FeatureRuleApplies
    /\ vectorizer.is_fitted
    /\ feature_vectors = FlatMatrix(Len(processed_emails))
    /\ label[1] = "Meetings"

\* the label "{feature} Related" has been given
C21_RelatedReached == pc = "labelled" /\ label[1] = "Zebra Related"

-----------------------------------------------------------------------------
(* Labels from subject words (SpecContent) *)

\* the label came from the subject words or from the size of the cluster
SubjectRuleApplies ==
    /\ FeatureRuleApplies
    /\ get_top_features_for_cluster(vectorizer, feature_vectors, 5) = <<>>

\* the subject words of the cluster with their counts, most frequent first,
\* without the words that occur once and the words of the stop set
SurvivingWords(subjects) ==
    Words(SelectSeq(most_common(SubjectWords(subjects), Len(SubjectWords(subjects))),
                    LAMBDA pair : pair[2] > 1
                                  /\ pair[1] \notin {"the", "and", "for", "you", "your"}))

SizeLabels == { "Large Email Group", "Medium Email Group", "Small Email Group" }

\* C22: when the subject words decide, and a subject word of three letters or
\* more occurs more than once and is not one of the, and, for, you, your, the
\* label is that of the most frequent such words (their category, else the first
\* two in title case joined by "&") and not a size label.
C22_SurvivingWordsLabel ==
    SubjectRuleApplies
    /\ SurvivingWords(Column(processed_emails, "subject")) # <<>> =>
        /\ label[1] \notin SizeLabels
        /\ label[1] = words_to_label(Take(SurvivingWords(Column(processed_emails,
                                                                "subject")), 3))

\* two emails "For you and the team lunch": team and lunch occur twice, the
\* label is the size label
C22_FailingInput ==
    /\ SubjectRuleApplies
    /\ Len(processed_emails) = 2
    /\ SurvivingWords(Column(processed_emails, "subject")) = <<"team", "lunch">>
    /\ label[1] = "Small Email Group"

\* a cluster labelled by its subject words
C22_WordsReached == SubjectRuleApplies /\ label[1] = "Lunch"

-----------------------------------------------------------------------------
(* The dominant sender domain (SpecContent) *)

\* C23: when no flag rule matches, a cluster in which one sender domain other
\* than "unknown" has more than half of the emails gets the category of that
\* domain as label and "Emails from {domain} and related services ({n} emails)"
\* as description; a cluster whose most common domain is "unknown" or has half
\* of the emails or fewer is labelled by the feature rule and the rules after it.
C23_DominantDomain ==
    pc = "labelled" /\ NoFlagRule(processed_emails) =>
        /\ \A d \in DominantDomains(processed_emails) :
              /\ label[1] = domain_to_label(d)
              /\ label[2] = "Emails from " \o d \o " and related services ("
                                \o Str(Len(processed_emails)) \o " emails)"
        /\ DominantDomains(processed_emails) = {} =>
              label = feature_label(Column(processed_emails, "subject"), vectorizer,
                                    feature_vectors, Len(processed_emails))

\* two of three emails are from github.com
C23_Witness ==
    /\ pc = "labelled"
    /\ NoFlagRule(processed_emails)
    /\ Len(processed_emails) = 3
    /\ DomainCount(processed_emails, "github.com") = 2
    /\ label = <<"Technology & Development",
                 "Emails from github.com and related services (3 emails)">>

\* the rule is skipped for "unknown" with two of three emails, and for a
\* domain with one of two
C23_SkippedForUnknown ==
    /\ pc = "labelled"
    /\ NoFlagRule(processed_emails)
    /\ Len(processed_emails) = 3
    /\ DomainCount(processed_emails, "unknown") = 2
    /\ label[1] = "Work & Business"

C23_SkippedAtHalf ==
    /\ pc = "labelled"
    /\ NoFlagRule(processed_emails)
    /\ Len(processed_emails) = 2
    /\ DomainCount(processed_emails, "github.com") = 1
    /\ DomainCount(processed_emails, "corp.com") = 1
    /\ label[1] = "Small Email Group"

-----------------------------------------------------------------------------
(* The label of a sender domain (SpecDomains) *)

\* the categories of _domain_to_label in their order: social, shopping,
\* finance, news, tech, work
DomainCategories ==
    << "Social Media", "Shopping & E-commerce", "Financial Services", "News & Media",
       "Technology & Development", "Work & Business" >>

\* the groups with a keyword that is a substring of the domain
GroupsIn(domain) ==
    { g \in 1..Len(domain_groups) : \E k \in domain_groups[g][1] : Contains(domain, k) }

\* the domain without its suffix .com, .org or .net
SuffixStripped(domain) ==
    IF \E t \in { ".com", ".org", ".net" } : EndsWith(domain, t)
    THEN SubSeq(domain, 1, Len(domain) - 4)
    ELSE domain

\* C24: the label of a domain is the category of the first of the groups
\* social, shopping, finance, news, tech, work with a keyword that is a
\* substring of the domain; for a domain without such a keyword it is the
\* domain without its suffix .com, .org or .net, in title case (the code
\* ends the label with " Emails").
C24_DomainLabel ==
    pc = "labelled" =>
        IF GroupsIn(features.sender_domain) # {}
        THEN result = DomainCategories[MinOrZero(GroupsIn(features.sender_domain))]
        ELSE result = Title(SuffixStripped(features.sender_domain)) \o " Emails"

\* the part of C24 about the groups
C24_GroupOrder ==
    pc = "labelled" /\ GroupsIn(features.sender_domain) # {} =>
        result = DomainCategories[MinOrZero(GroupsIn(features.sender_domain))]

\* a domain of two groups gets the first: shop.facebook.com is social
C24_FirstGroupReached ==
    /\ pc = "labelled"
    /\ features.sender_domain = "shop.facebook.com"
    /\ result = "Social Media"

\* acme.network has none of the three suffixes, and its label is not
\* "Acme.Network Emails"
C24_FailingInput ==
    /\ pc = "labelled"
    /\ features.sender_domain = "acme.network"
    /\ result = "Acmework Emails"

-----------------------------------------------------------------------------
(* The category code of a sender domain (SpecDomains) *)

\* the categories of _encode_sender_domain that the domain matches; 8 matches
\* every domain
CodesOf(domain) ==
    { c \in 1..5 :
        \E k \in << social_domains, shopping_domains, finance_domains, news_domains,
                     tech_domains >>[c] : Contains(domain, k) }
    \cup (IF EndsWith(domain, ".gov") \/ EndsWith(domain, ".org") THEN { 6 } ELSE {})
    \cup (IF EndsWith(domain, ".edu") THEN { 7 } ELSE {})
    \cup { 8 }

\* C25: _encode_sender_domain returns 0 for the empty domain and for
\* "unknown"; for every other domain it returns the lowest code among the
\* categories the domain matches, social 1, shopping 2, finance 3, news 4,
\* tech 5, ending .gov or .org 6, ending .edu 7, and 8 when it matches none;
\* the code is always in 0..8.
C25_DomainCode ==
    pc = "encoded" =>
        /\ result \in 0..8
        /\ features.sender_domain \in { "", "unknown" } => result = 0
        /\ features.sender_domain \notin { "", "unknown" } =>
              /\ result \in CodesOf(features.sender_domain)
              /\ \A c \in CodesOf(features.sender_domain) : result <= c

\* a domain of the categories finance, news and .edu, encoded as finance
C25_Witness ==
    /\ pc = "encoded"
    /\ features.sender_domain = "newsbank.edu"
    /\ CodesOf(features.sender_domain) = { 3, 4, 7, 8 }
    /\ result = 3

-----------------------------------------------------------------------------
(* Clusters of equal size (SpecClusterer) *)

\* the k-means label of the emails of a cluster of the returned list
LabelOfCluster(cluster) ==
    clusterer.cluster_labels[
        CHOOSE p \in 1..Len(processed_emails) :
            processed_emails[p].gmail_id = cluster.emails[1].gmail_id ]

\* C26: in the list built from the k-means labels, of two clusters with the
\* same email_count the one with the lower k-means label comes first.
C26_TiesInLabelOrder ==
    pc = "returned" /\ outcome.path = "kmeans" =>
        \A i \in 1..Len(clusters), j \in 1..Len(clusters) :
            i < j /\ clusters[i].email_count = clusters[j].email_count =>
                LabelOfCluster(clusters[i]) < LabelOfCluster(clusters[j])

\* three emails with three labels: three clusters of one email, label 0 first
C26_Witness ==
    /\ pc = "returned"
    /\ outcome.path = "kmeans"
    /\ clusterer.cluster_labels = <<2, 0, 1>>
    /\ Len(clusters) = 3
    /\ clusters[1].email_ids = <<"m2">>
    /\ clusters[2].email_ids = <<"m3">>
    /\ clusters[3].email_ids = <<"m1">>

-----------------------------------------------------------------------------
(* is_fitted over the calls on one EmailVectorizer (SpecVectorizer) *)

\* what one call does to is_fitted, and when transform raises to its caller
FittedStep ==
    /\ vectorizer.is_fitted => vectorizer'.is_fitted
    /\ outcome'.path = "fit_transform" =>
          (vectorizer'.is_fitted <=>
              \/ vectorizer.is_fitted
              \/ (processed_emails' # <<>> /\ outcome'.raised = "none"))
    /\ outcome'.path = "transform" =>
          /\ vectorizer'.is_fitted = vectorizer.is_fitted
          /\ outcome'.raised = "ValueError" <=> ~vectorizer.is_fitted

\* C27: is_fitted of an EmailVectorizer is false after construction; a call of
\* fit_transform sets it exactly when the batch is not empty and nothing is
\* raised in the call; no failed or empty fit_transform and no transform
\* changes it, and it never goes back to false; transform raises ValueError to
\* its caller exactly when is_fitted is false.
C27_FittedOnceFitted ==
    /\ [](pc = "constructed" => ~vectorizer.is_fitted)
    /\ [][FittedStep]_vars

\* the second of two calls of fit_transform failed after the first succeeded:
\* the vectorizer is still fitted
C27_Witness ==
    /\ pc = "second"
    /\ outcome.path = "fit_transform"
    /\ outcome.raised = "tfidf"
    /\ feature_vectors = <<>>
    /\ vectorizer.is_fitted

-----------------------------------------------------------------------------
(* SpecRoutes: the routes of api/routes.py on the DatabaseManager.  The      *)
(* emails table holds rows with their row id, gmail_id and is_archived; the  *)
(* assignments link row ids to cluster ids.  db.calls and provider.calls are *)
(* the methods the request being handled has called.                         *)

Row(id, gmail_id, is_archived) ==
    [ id |-> id, gmail_id |-> gmail_id, is_archived |-> is_archived ]

\* the database after init_database
EmptyDb == [ emails |-> {}, clusters |-> <<>>, email_clusters |-> {}, calls |-> {} ]

\* the highest row id of the emails table, 0 for the empty table
MaxId(rows) == IF rows = {} THEN 0 ELSE CHOOSE m \in { r.id : r \in rows } :
                                          \A r \in rows : r.id <= m

\* INSERT OR REPLACE that updates the stored row in place
upsert(rows, gmail_id) ==
    IF \E r \in rows : r.gmail_id = gmail_id THEN rows
    ELSE rows \cup { Row(MaxId(rows) + 1, gmail_id, FALSE) }

\* INSERT OR REPLACE INTO emails (gmail_id, ...): gmail_id is UNIQUE, so the row
\* that holds it is deleted; the new row takes the next row id and the default
\* is_archived
insert_or_replace(rows, gmail_id) ==
    { r \in rows : r.gmail_id # gmail_id } \cup { Row(MaxId(rows) + 1, gmail_id, FALSE) }

RECURSIVE inserted(_, _)
\* the loop of save_emails over the batch
inserted(rows, batch) ==
    IF batch = <<>> THEN rows
    ELSE inserted(insert_or_replace(rows, Head(batch).gmail_id), Tail(batch))

\* DatabaseManager.save_emails(emails)
save_emails(db_state, batch) ==
    [ db_state EXCEPT !.emails = inserted(@, batch), !.calls = @ \cup { "save_emails" } ]

\* DatabaseManager.get_emails(include_archived): the rows selected
get_emails(db_state, include_archived) ==
    IF include_archived THEN db_state.emails
    ELSE { r \in db_state.emails : ~r.is_archived }

\* SELECT ... FROM emails e JOIN email_clusters ec ON e.id = ec.email_id
\* WHERE ec.cluster_id = ?
RowsOfCluster(db_state, cluster_id) ==
    { r \in db_state.emails : <<r.id, cluster_id>> \in db_state.email_clusters }

\* archive_cluster_emails without the UPDATE: the gmail ids are only selected
select_cluster_emails(db_state, cluster_id) ==
    [ gmail_ids |-> { r.gmail_id : r \in RowsOfCluster(db_state, cluster_id) },
      db |-> [ db_state EXCEPT !.calls = @ \cup { "archive_cluster_emails" } ] ]

\* DatabaseManager.archive_cluster_emails(cluster_id): the gmail ids of the
\* cluster's emails are selected, the rows are marked archived, the transaction
\* is committed
archive_cluster_emails(db_state, cluster_id) ==
    [ gmail_ids |-> { r.gmail_id : r \in RowsOfCluster(db_state, cluster_id) },
      db |-> [ db_state EXCEPT
                 !.emails = { IF r \in RowsOfCluster(db_state, cluster_id)
                              THEN [ r EXCEPT !.is_archived = TRUE ] ELSE r : r \in @ },
                 !.calls = @ \cup { "archive_cluster_emails" } ] ]

\* DatabaseManager.get_clusters_with_emails(): every cluster row with its id
\* and the gmail ids of its emails that are not archived
get_clusters_with_emails(db_state) ==
    List([ i \in 1..Len(db_state.clusters) |->
             [ id |-> i,
               email_count |-> db_state.clusters[i].email_count,
               emails |-> { r.gmail_id : r \in { r \in RowsOfCluster(db_state, i) :
                                                   ~r.is_archived } } ] ])

\* the messages of the inbox, by gmail id
Inbox ==
    << [ RawNote EXCEPT !.gmail_id = "m1" ], [ RawPing EXCEPT !.gmail_id = "m2" ],
       [ RawNewsletter EXCEPT !.gmail_id = "m3" ] >>

\* what fetch_recent_emails may return: messages of the inbox, in inbox order
FetchedBatches ==
    { <<>>, <<Inbox[1]>>, <<Inbox[2], Inbox[3]>>, Inbox }

\* the runs process_and_cluster_emails may make on a fetched batch, over what
\* the libraries and the database calls do
PipelineRuns ==
    [ batch \in FetchedBatches |->
        { process_and_cluster_emails(batch, NewDb(batch), lib.tfidf, lib.kmeans, failure) :
            lib \in Libraries(preprocess_emails(batch)), failure \in DbFailures } ]

\* lines 236-264 of process_and_cluster_emails on the rows: run is the run of
\* the pipeline on the batch.  Nothing is stored when the run has no cluster to
\* save or save_clusters raises; else the cluster rows are replaced, the
\* assignments cleared, and every email of a cluster that get_emails() finds
\* by its gmail_id is assigned by its row id
store_clusters(db_state, run) ==
    IF run.db.clusters = <<>> THEN db_state
    ELSE [ db_state EXCEPT
             !.clusters = run.db.clusters,
             !.email_clusters =
                 { <<r.id, p[2]>> : <<r, p>> \in { q \in get_emails(db_state, FALSE) \X
                                                        run.db.email_clusters :
                                                     q[1].gmail_id = q[2][1] } },
             !.calls = @ \cup { "save_clusters", "get_emails" } \cup
                       (IF run.db.email_clusters = {} THEN {}
                        ELSE { "save_email_cluster_assignments" }) ]

\* the guard of the four routes that never refuses
NeverRefused(is_authenticated) == FALSE

\* if not oauth_handler.is_authenticated(): return ..., 401
Refused(is_authenticated) == ~is_authenticated

\* the response of a route; status 0 while the request is being handled
Response(route, status) == [ route |-> route, status |-> status ]

\* the request of the route being handled
Request(route, cluster_id, user_email) ==
    [ route |-> route, cluster_id |-> cluster_id, user_email |-> user_email,
      gmail_ids |-> {}, replaced |-> {} ]

\* a request starts: nothing called yet
Fresh(calls_of) == [ calls_of EXCEPT !.calls = {} ]

\* the addresses a request may carry: none, or the user's
Addresses == { "", "me@example.com" }

\* the highest email row id reached
MaxRowId == 5

\* what the Gmail API client does for one request: connect finds no
\* credentials, fetch_recent_emails raises, or the messages are returned
GmailOutcomes == { "no credentials", "raises", "returns" }

\* the route fetch_emails, lines 144-206
fetch_emails(is_authenticated, user_email, gmail, batch, db_state, mail, run) ==
    LET request == Request("fetch_emails", 0, user_email)
        answer(status, d, calls, fetched, replaced) ==
            [ response |-> Response("fetch_emails", status),
              db |-> d,
              provider |-> [ mail EXCEPT !.calls = calls ],
              emails |-> fetched,
              request |-> [ request EXCEPT !.replaced = replaced ] ]
    IN  IF Refused(is_authenticated) THEN answer(401, Fresh(db_state), {}, <<>>, {})
        ELSE IF user_email = "" THEN answer(400, Fresh(db_state), {}, <<>>, {})
        ELSE IF gmail = "no credentials" THEN answer(500, Fresh(db_state), {}, <<>>, {})
        ELSE IF gmail = "raises"
        THEN answer(500, Fresh(db_state), { "build", "fetch_recent_emails" }, <<>>, {})
        ELSE IF batch = <<>>
        THEN answer(404, Fresh(db_state), { "build", "fetch_recent_emails" }, batch, {})
        ELSE answer(200,
                    store_clusters(save_emails(Fresh(db_state), batch), run),
                    { "build", "fetch_recent_emails" },
                    batch,
                    { r \in db_state.emails :
                        \E i \in 1..Len(batch) : batch[i].gmail_id = r.gmail_id })

\* the route get_clusters, lines 274-307: the clusters that have an active email
get_clusters(is_authenticated, db_state) ==
    IF Refused(is_authenticated)
    THEN [ response |-> Response("get_clusters", 401), db |-> Fresh(db_state) ]
    ELSE [ response |-> Response("get_clusters", 200),
           db |-> [ db_state EXCEPT !.calls = { "get_clusters_with_emails" } ] ]

\* the route get_stats, lines 374-410
get_stats(is_authenticated, db_state) ==
    IF Refused(is_authenticated)
    THEN [ response |-> Response("get_stats", 401), db |-> Fresh(db_state) ]
    ELSE [ response |-> Response("get_stats", 200),
           db |-> [ db_state EXCEPT !.calls = { "get_emails", "get_clusters_with_emails" } ] ]

InitRoutes ==
    /\ pc = "idle"
    /\ db = EmptyDb
    /\ provider = NoProvider
    /\ authenticated = FALSE
    /\ result = Response("none", 0)
    /\ outcome = Request("none", 0, "")
    /\ emails = <<>>
    /\ processed_emails = <<>>
    /\ feature_vectors = <<>>
    /\ email_ids = <<>>
    /\ vectorizer = NewVectorizer
    /\ n_arg = None
    /\ clusterer = NewClusterer(None)
    /\ clusters = <<>>
    /\ email = RawPlain
    /\ features = <<>>
    /\ label = <<>>
    /\ returned = <<>>
    /\ library = NoLibrary

\* the route oauth_callback: exchange_code_for_tokens succeeds or fails
OauthCallback ==
    /\ pc = "idle"
    /\ \E success \in BOOLEAN :
          /\ authenticated' = (authenticated \/ success)
          /\ result' = Response("oauth_callback", IF success THEN 200 ELSE 500)
    /\ outcome' = Request("oauth_callback", 0, "")
    /\ db' = Fresh(db)
    /\ provider' = Fresh(provider)
    /\ UNCHANGED <<pc, emails>>
    /\ UNCHANGED <<returned, library, processed_emails, feature_vectors, email_ids,
                   vectorizer, clusterer, clusters, n_arg, email, features, label>>

\* the route logout: oauth_handler.logout() clears the credentials
Logout ==
    /\ pc = "idle"
    /\ authenticated' = FALSE
    /\ result' = Response("logout", 200)
    /\ outcome' = Request("logout", 0, "")
    /\ db' = Fresh(db)
    /\ provider' = Fresh(provider)
    /\ UNCHANGED <<pc, emails>>
    /\ UNCHANGED <<returned, library, processed_emails, feature_vectors, email_ids,
                   vectorizer, clusterer, clusters, n_arg, email, features, label>>

\* POST /emails/fetch
FetchEmails ==
    /\ pc = "idle"
    /\ \E user_email \in Addresses, gmail \in GmailOutcomes, batch \in FetchedBatches :
          /\ MaxId(db.emails) + Len(batch) <= MaxRowId
          /\ \E run \in PipelineRuns[batch] :
                LET r == fetch_emails(authenticated, user_email, gmail, batch, db, provider,
                                      run)
                IN  /\ result' = r.response
                    /\ db' = r.db
                    /\ provider' = r.provider
                    /\ emails' = r.emails
                    /\ outcome' = r.request
    /\ UNCHANGED <<pc, authenticated>>
    /\ UNCHANGED <<returned, library, processed_emails, feature_vectors, email_ids,
                   vectorizer, clusterer, clusters, n_arg, email, features, label>>

\* GET /clusters
GetClusters ==
    /\ pc = "idle"
    /\ LET r == get_clusters(authenticated, db)
       IN  /\ result' = r.response
           /\ db' = r.db
    /\ outcome' = Request("get_clusters", 0, "")
    /\ provider' = Fresh(provider)
    /\ UNCHANGED <<pc, authenticated, emails>>
    /\ UNCHANGED <<returned, library, processed_emails, feature_vectors, email_ids,
                   vectorizer, clusterer, clusters, n_arg, email, features, label>>

\* GET /stats
GetStats ==
    /\ pc = "idle"
    /\ LET r == get_stats(authenticated, db)
       IN  /\ result' = r.response
           /\ db' = r.db
    /\ outcome' = Request("get_stats", 0, "")
    /\ provider' = Fresh(provider)
    /\ UNCHANGED <<pc, authenticated, emails>>
    /\ UNCHANGED <<returned, library, processed_emails, feature_vectors, email_ids,
                   vectorizer, clusterer, clusters, n_arg, email, features, label>>

\* POST /clusters/<cluster_id>/archive arrives, lines 309-321: the request is
\* refused, or handled
ArchiveCluster ==
    /\ pc = "idle"
    /\ \E cluster_id \in 1..(Len(db.clusters) + 1), user_email \in Addresses :
          outcome' = Request("archive_cluster", cluster_id, user_email)
    /\ result' = Response("archive_cluster", IF Refused(authenticated) THEN 401 ELSE 0)
    /\ pc' = IF Refused(authenticated) THEN "idle" ELSE "authenticated"
    /\ db' = Fresh(db)
    /\ provider' = Fresh(provider)
    /\ UNCHANGED <<authenticated, emails>>
    /\ UNCHANGED <<returned, library, processed_emails, feature_vectors, email_ids,
                   vectorizer, clusterer, clusters, n_arg, email, features, label>>

\* lines 323-330: gmail_ids = db_manager.archive_cluster_emails(cluster_id);
\* 404 when there is none
MarkArchived ==
    /\ pc = "authenticated"
    /\ LET r == archive_cluster_emails(db, outcome.cluster_id)
       IN  /\ db' = r.db
           /\ outcome' = [ outcome EXCEPT !.gmail_ids = r.gmail_ids ]
           /\ result' = Response("archive_cluster", IF r.gmail_ids = {} THEN 404 ELSE 0)
           /\ pc' = IF r.gmail_ids = {} THEN "idle" ELSE "marked"
    /\ UNCHANGED <<provider, authenticated, emails>>
    /\ UNCHANGED <<returned, library, processed_emails, feature_vectors, email_ids,
                   vectorizer, clusterer, clusters, n_arg, email, features, label>>

\* lines 332-337: the address of the request is read; 400 when it is missing
CheckAddress ==
    /\ pc = "marked"
    /\ result' = Response("archive_cluster", IF outcome.user_email = "" THEN 400 ELSE 0)
    /\ pc' = IF outcome.user_email = "" THEN "idle" ELSE "addressed"
    /\ UNCHANGED <<db, outcome, provider, authenticated, emails>>
    /\ UNCHANGED <<returned, library, processed_emails, feature_vectors, email_ids,
                   vectorizer, clusterer, clusters, n_arg, email, features, label>>

\* lines 339-372: gmail_client = GmailIMAPClient(oauth_handler).  routes.py
\* imports GmailOAuth and GmailAPIClient only, so the name is not defined:
\* NameError, caught by the handler of the route, which answers 500
ArchiveAtProvider ==
    /\ pc = "addressed"
    /\ result' = Response("archive_cluster", 500)
    /\ pc' = "idle"
    /\ UNCHANGED <<db, outcome, provider, authenticated, emails>>
    /\ UNCHANGED <<returned, library, processed_emails, feature_vectors, email_ids,
                   vectorizer, clusterer, clusters, n_arg, email, features, label>>

NextRoutes ==
    \/ OauthCallback
    \/ Logout
    \/ FetchEmails
    \/ GetClusters
    \/ GetStats
    \/ ArchiveCluster
    \/ MarkArchived
    \/ CheckAddress
    \/ ArchiveAtProvider

SpecRoutes == InitRoutes /\ [][NextRoutes]_vars

-----------------------------------------------------------------------------
(* C29: save_emails on the emails table *)

\* the gmail ids of a batch
BatchIds(batch) == { batch[i].gmail_id : i \in 1..Len(batch) }

\* no two rows hold the same gmail_id
OneRowPerGmailId(rows) ==
    \A r \in rows, q \in rows : r.gmail_id = q.gmail_id => r = q

\* what a request that called save_emails did to the rows: emails' is the
\* batch saved
SaveEffect ==
    "save_emails" \in db'.calls =>
       /\ \A g \in BatchIds(emails') :
             \E r \in db'.emails : /\ r.gmail_id = g
                                   /\ ~r.is_archived
                                   /\ r.id \notin { q.id : q \in db.emails }
       /\ \A r \in db.emails \cup db'.emails :
             r.gmail_id \notin BatchIds(emails') => (r \in db.emails /\ r \in db'.emails)

\* C29: the emails table holds at most one row per gmail_id; saving an email
\* whose gmail_id is stored replaces the row, the new row is not archived and
\* has a row id no row had before, so an email archived locally is active again
\* after the message is fetched again; the rows of gmail ids that are not in
\* the saved batch are left as they were.
C29_SaveReplaces ==
    /\ [] OneRowPerGmailId(db.emails)
    /\ [][SaveEffect]_vars

\* a fetch replaced an archived row by an active one with another row id, and
\* an archived row of a message that was not fetched again is still archived
C29_Witness ==
    /\ result = Response("fetch_emails", 200)
    /\ \E r \in outcome.replaced :
          /\ r.is_archived
          /\ \E q \in db.emails : q.gmail_id = r.gmail_id /\ ~q.is_archived /\ q.id # r.id
    /\ \E q \in db.emails : q.is_archived /\ q.gmail_id \notin BatchIds(emails)

-----------------------------------------------------------------------------
(* C28: archive_cluster marks the emails before it checks the request *)

\* the rows of the emails the archive request selected are all archived
MarkedLocally ==
    /\ outcome.gmail_ids # {}
    /\ \A g \in outcome.gmail_ids : \E r \in db.emails : r.gmail_id = g
    /\ \A r \in db.emails : r.gmail_id \in outcome.gmail_ids => r.is_archived

\* the archive request failed after it found emails in the cluster
ArchiveFailed ==
    /\ pc = "idle"
    /\ result.route = "archive_cluster"
    /\ result.status \in { 400, 500 }

\* the mark is in the table when the address is checked and when the provider
\* is to be called, the provider has not been called by then, and it is still
\* there, with nothing archived at the provider, when the request has failed
MarkedState ==
    /\ pc \in { "marked", "addressed" } =>
          (MarkedLocally /\ provider.calls = {} /\ result.status = 0)
    /\ ArchiveFailed => (MarkedLocally /\ outcome.gmail_ids \cap provider.archived = {})

\* no step of the request after the mark changes a row or archives at the provider
MarkKept ==
    pc \in { "marked", "addressed" } =>
       (db'.emails = db.emails /\ provider'.archived = provider.archived)

\* C28: archive_cluster marks the emails of the cluster archived in the local
\* store, committed, before it checks the address of the request and before
\* any call to the mail provider; no later failure path reverts the mark, so
\* after a failed archive request the emails are archived locally and not
\* archived at the provider.
C28_MarkedBeforeChecks ==
    /\ [] MarkedState
    /\ [][MarkKept]_vars

\* an archive request that carries an address failed with 500 after it marked
\* the emails of its cluster
C28_Witness ==
    /\ ArchiveFailed
    /\ result.status = 500
    /\ outcome.user_email # ""
    /\ MarkedLocally
    /\ provider.archived = {}

-----------------------------------------------------------------------------
(* C30: the four routes refuse a request that is not authenticated *)

GuardedRoutes == { "fetch_emails", "get_clusters", "archive_cluster", "get_stats" }

\* a request to a guarded route arrives while is_authenticated() is false: it
\* is answered 401 at once, no DatabaseManager method and no provider method is
\* called, no row, cluster or assignment changes
RefusedStep ==
    (~authenticated /\ result'.route \in GuardedRoutes) =>
       /\ result'.status = 401
       /\ pc' = "idle"
       /\ db'.calls = {}
       /\ provider'.calls = {}
       /\ db'.emails = db.emails
       /\ db'.clusters = db.clusters
       /\ db'.email_clusters = db.email_clusters
       /\ provider'.archived = provider.archived

\* C30: while the OAuth handler reports not authenticated, fetch_emails,
\* get_clusters, archive_cluster and get_stats answer 401 and make no read or
\* write of emails, clusters or assignments and no call to the mail provider;
\* no email is marked archived by such a request.
C30_RefusedUnauthenticated == [][RefusedStep]_vars

\* after a logout an archive request for a stored cluster with active emails
\* was answered 401 and the emails are still active
C30_Witness ==
    /\ ~authenticated
    /\ pc = "idle"
    /\ result = Response("archive_cluster", 401)
    /\ db.calls = {}
    /\ \E r \in RowsOfCluster(db, outcome.cluster_id) : ~r.is_archived

====
